---- MODULE Spec2Model ----
(***************************************************************************)
(* Model of the hopsfs-go-mount filesystem mediation engine: the inode     *)
(* tree (DirINode / FileINode), the file proxy of an open file (RemoteRO   *)
(* reader or LocalRW staging file), the FileHandle operations and the      *)
(* locks they take.  Each FUSE request runs on its own thread; a thread is *)
(* a process p with a position pc[p] and locals loc[p].  A step of a       *)
(* handler is one action; steps are cut where a mutex is acquired and      *)
(* where a DFS RPC becomes visible to other requests.                      *)
(***************************************************************************)
EXTENDS Integers, Sequences, FiniteSets, TLC

\* ---------------------------------------------------------------- bounds
MaxProcs == 2      \* concurrent FUSE request threads
MaxHandles == 2    \* file handles that can be open at a time
MaxInodes == 3     \* in-memory inode objects
MaxLen == 2        \* longest file content
MaxWritten == 2    \* cap of totalBytesWritten in the guards
MaxTries == 2      \* largest MaxAttempts of a retry policy
MaxDuration == 2   \* longest MinDelay and MaxDelay of a retry policy, in ticks
MaxElapsed == 6    \* cap of the time the raw calls of one operation take
Connectors == 2    \* -numConnections: connectors of the file system
MaxCalls == 4      \* cap of the calls of getDFSConnector
MaxNow == 4        \* cap of the clock of the identity cache, in ticks
MaxReaders == 1    \* randomAccessReaderImpl.MaxReaders
MaxOpened == 3     \* readers of a RandomAccessReader that exist at a time

Procs == 1..MaxProcs
Handles == 1..MaxHandles
Inodes == 1..MaxInodes
Dirs == {"d1", "d2"}
Names == {"a", "b"}
Paths == Dirs \X Names

Min(x, y) == IF x < y THEN x ELSE y
Max(x, y) == IF x < y THEN y ELSE x
Abs(x) == IF x < 0 THEN 0 - x ELSE x

\* ------------------------------------------------------------ DFS entries
NoEnt == [kind |-> "none", data |-> <<>>]
DirEnt == [kind |-> "dir", data |-> <<>>]
FileEnt(c) == [kind |-> "file", data |-> c]

VARIABLES
  dfs,               \* DFS namespace: path -> entry
  children,          \* DirINode.children: dir -> name -> inode (0: absent)
  inoKind,           \* inode object: "free", "file" or "dir"
  inoName,           \* Attrs.Name
  inoParent,         \* Parent
  attrSize,          \* Attrs.Size
  attrExpired,       \* Clock.Now().After(Attrs.Expires)
  fileProxy,         \* FileINode.fileProxy: "None", "RemoteRO", "LocalRW"
  reader,            \* content served by the RemoteRO proxy's hdfsReader
  staging,           \* content of the LocalRW proxy's staging file
  stagingPos,        \* file offset of the staging file (Seek / Read)
  activeHandles,     \* FileINode.activeHandles
  fhFile,            \* FileHandle.File (0: handle id not in use)
  totalBytesWritten, \* FileHandle.totalBytesWritten
  kernelHandles,     \* handles returned to the kernel by Open / Create
  fileMutex,         \* FileINode.fileMutex owner (0: free)
  fileHandleMutex,   \* FileINode.fileHandleMutex owner
  handleMutex,       \* FileHandle.mutex owner
  dirMutex,          \* DirINode.dirMutex owner
  pc,                \* position of each request thread
  loc,               \* locals of each request thread
  crashed,           \* logger.Fatal ended the process
  allowedPrefixes,   \* FileSystem.AllowedPrefixes, set at mount time
  flushed,           \* history: handle flushed and nothing written since
  res,               \* the last answer given to the kernel
  rt,                \* history: progress of the create-write-close-reopen scenario
  lastRename,        \* history: the last completed rename, until the tree changes again
  ftr,               \* a FaultTolerantHdfsReader on the file d1/a
  ftrLog,            \* history: the last successful Seek and the bytes read since
  hdfsAccessorsIndex, \* FileSystem.hdfsAccessorsIndex
  handedOut,         \* history: the connectors the latest calls of getDFSConnector returned
  retryPolicy,       \* the RetryPolicy shared by every connector and every flush
  sigStep,           \* position of the goroutine that handles SIGINT/SIGTERM
  userNameToUidCache, \* ugcache: user name -> ugID
  userIdToNameCache, \* ugcache: uid -> ugName
  hostUsers,         \* the host user database: name -> uid (0: no such user)
  ugNow,             \* time.Now() as the identity cache sees it, in ticks
  Pool,              \* randomAccessReaderImpl.Pool: offset -> reader (0: none), or nil
  readerOpen,        \* the readers OpenRead has handed out and nobody has closed
  readerPos          \* position of each reader

vars == <<dfs, children, inoKind, inoName, inoParent, attrSize, attrExpired,
          fileProxy, reader, staging, stagingPos, activeHandles, fhFile,
          totalBytesWritten, kernelHandles, fileMutex, fileHandleMutex, handleMutex, dirMutex,
          pc, loc, crashed, allowedPrefixes, res, flushed, rt, lastRename, ftr, ftrLog,
          hdfsAccessorsIndex, handedOut, retryPolicy, sigStep,
          userNameToUidCache, userIdToNameCache, hostUsers, ugNow,
          Pool, readerOpen, readerPos>>

dfsVars == <<dfs>>
treeVars == <<children, inoKind, inoName, inoParent>>
attrVars == <<attrSize, attrExpired>>
proxyVars == <<fileProxy, reader, staging, stagingPos>>
handleVars == <<activeHandles, fhFile, totalBytesWritten, kernelHandles>>
lockVars == <<fileMutex, fileHandleMutex, handleMutex, dirMutex>>
histVars == <<flushed, rt, lastRename>>
ftVars == <<ftr, ftrLog>>
poolVars == <<hdfsAccessorsIndex, handedOut>>
sigVars == <<retryPolicy, sigStep>>
ugVars == <<userNameToUidCache, userIdToNameCache, hostUsers, ugNow>>
rarVars == <<Pool, readerOpen, readerPos>>
sideVars == <<poolVars, sigVars, ugVars, rarVars>>
fsVars == <<dfsVars, treeVars, attrVars, proxyVars, handleVars, lockVars,
            crashed, allowedPrefixes, ftVars, histVars>>

\* ------------------------------------------------------- thread locals
\* error values: w says the error is wrapped in an *os.PathError, t is its
\* type (syscall.Errno, an os.Err* variable, io.EOF, or any other error)
Nil == [w |-> FALSE, t |-> "nil", c |-> ""]
NoPolicy == [MaxAttempts |-> 0, MinDelay |-> 0, MaxDelay |-> 0, TimeLimit |-> 0]
NoPre == [src |-> 0, dst |-> 0, esrc |-> NoEnt, edst |-> NoEnt]
NoLoc == [op |-> "", h |-> 0, i |-> 0, d |-> "", n |-> "", d2 |-> "", n2 |-> "",
          data |-> <<>>, off |-> 0, size |-> 0, k |-> 0, st |-> "", j |-> 0,
          flag |-> FALSE, ph |-> 0, j2 |-> 0, ent |-> NoEnt, rflags |-> "", opt |-> "",
          nstat |-> 0, cached |-> 0, failed |-> FALSE, retry |-> FALSE,
          pol |-> NoPolicy, attempt |-> 0, elapsed |-> 0, retryAt |-> 0,
          m |-> "", ncloses |-> 0, err |-> Nil, pre |-> NoPre]

NoRt == [ph |-> 0, i |-> 0, buf |-> <<>>, tr |-> FALSE, old |-> 0]
NoRename == [i |-> 0, d |-> "", n |-> "", d2 |-> "", n2 |-> "", size |-> 0,
             hs |-> {}, w |-> FALSE, fl |-> FALSE, rep |-> FALSE, back |-> FALSE]


\* --------------------------------------------------- staging file content
\* a WriteAt that loses the data: the round trip does not survive it
WriteAtContentLost(c, b, off) == c

\* os.File.WriteAt: bytes between the old end and off read as zero
WriteAtContent(c, b, off) ==
  [k \in 1..Max(Len(c), off + Len(b)) |->
     IF k > off /\ k <= off + Len(b) THEN b[k - off]
     ELSE IF k <= Len(c) THEN c[k] ELSE 0]

\* a Truncate that cuts but never extends
TruncateContentCut(c, size) == [k \in 1..Min(size, Len(c)) |-> c[k]]

\* os.File.Truncate: cut, or extend with zero bytes
TruncateContent(c, size) ==
  [k \in 1..size |-> IF k <= Len(c) THEN c[k] ELSE 0]

\* the bytes a ReadAt of size bytes at off obtains from content c
Slice(c, off, size) ==
  [k \in 1..Min(size, Max(0, Len(c) - off)) |-> c[off + k]]

AbsolutePath(i) == <<inoParent[i], inoName[i]>>

\* ----------------------------------------------------- allowed prefixes
\* path strings are sequences of characters
NameChars == [d1 |-> <<"d", "1">>, d2 |-> <<"d", "2">>, a |-> <<"a">>, b |-> <<"b">>]
Slash == <<"/">>
Star == <<"*">>

\* the prefixes a mount may be configured with, and the configurations
PrefixChoices == {Star, <<"d", "1">>, <<"d">>, <<"d", "1", "/", "a">>, <<"d", "2">>}
PrefixConfigs == {S \in SUBSET PrefixChoices : Cardinality(S) \in {1, 2}}

\* AbsolutePathForChild: path.Join of the mount's source directory "/", the
\* directory and the name
AbsolutePathForChild(d, n) == Slash \o NameChars[d] \o Slash \o NameChars[n]

\* strings.HasPrefix
HasPrefix(str, pre) == Len(pre) <= Len(str) /\ SubSeq(str, 1, Len(pre)) = pre

\* a filter that takes every path that starts with "/" + prefix
IsPathAllowedLoose(path) ==
  \/ path = Slash
  \/ \E q \in allowedPrefixes : q = Star \/ HasPrefix(path, Slash \o q)

\* FileSystem.IsPathAllowed
IsPathAllowed(path) ==
  \/ path = Slash
  \/ \E q \in allowedPrefixes :
        \/ q = Star
        \/ Slash \o q = path
        \/ HasPrefix(path, Slash \o q \o Slash)

SeqRange(s) == {s[k] : k \in 1..Len(s)}
RemoveFromSeq(s, x) == SelectSeq(s, LAMBDA y : y # x)

Busy(p) == pc[p] # "idle"
InFlight(h) == \E q \in Procs : Busy(q) /\ loc[q].h = h
InTree(i) == \E d \in Dirs, n \in Names : children[d][n] = i
FreeHandles == {h \in Handles : fhFile[h] = 0 /\ \A q \in Procs : loc[q].h # h}
FreeInodes == {i \in Inodes : inoKind[i] = "free"}
LeastOf(S) == CHOOSE x \in S : \A y \in S : x <= y

\* an inode object nothing refers to any more is reclaimed by the Go runtime
Referenced(i) ==
  \/ InTree(i)
  \/ activeHandles[i] # <<>>
  \/ \E h \in Handles : fhFile[h] = i
  \/ \E q \in Procs : pc[q] # "idle" /\ (loc[q].i = i \/ loc[q].j2 = i)
Garbage == {i \in Inodes : inoKind[i] # "free" /\ ~Referenced(i)}

\* the history of the last rename says nothing once another request changes
\* one of its two paths
Touches(path) ==
  /\ lastRename.i # 0
  /\ path \in {<<lastRename.d, lastRename.n>>, <<lastRename.d2, lastRename.n2>>}

\* the handler returns: its answer goes to the kernel, the thread is free again
Finish(p, r) ==
  /\ pc' = [pc EXCEPT ![p] = "idle"]
  /\ loc' = [loc EXCEPT ![p] = NoLoc]
  /\ res' = [r EXCEPT !.ent = NoEnt, !.j = 0, !.j2 = 0]

\* a request thread that can take the next FUSE request
Ready(p) == ~crashed /\ pc[p] = "idle" /\ Garbage = {}

\* history of the scenario "create, write buf at 0, flush, release, open again"
RtWrite(i, b, off) ==
  IF rt.i # i \/ rt.ph = 0 THEN rt
  ELSE IF rt.ph = 1 /\ off = 0 THEN [NoRt EXCEPT !.ph = 2, !.i = i, !.buf = b] ELSE NoRt
RtVoid(i) == IF rt.i = i THEN NoRt ELSE rt
\* a truncate of the file, whose content is c, to a greater length: the
\* content expected from now on is c followed by zero bytes
RtTruncate(i, c, size) ==
  IF rt.i # i \/ rt.ph = 0 \/ size = Len(c) THEN rt
  ELSE IF rt.ph \in {1, 2, 3} /\ size > Len(c)
  THEN [ph |-> 2, i |-> i, buf |-> c \o [k \in 1..(size - Len(c)) |-> 0],
        tr |-> TRUE, old |-> Len(c)]
  ELSE NoRt
RtFlushOk(i) == IF rt.i = i /\ rt.ph = 2 THEN [rt EXCEPT !.ph = 3] ELSE rt
RtRelease(i, last) ==
  IF rt.i # i \/ ~last THEN rt
  ELSE IF rt.ph = 3 THEN [rt EXCEPT !.ph = 4]
  ELSE IF rt.ph \in {1, 2} THEN NoRt ELSE rt
RtOpen(i) == IF rt.i = i /\ rt.ph = 4 THEN [rt EXCEPT !.ph = 5] ELSE rt
RtPhase(i) == IF rt.i = i THEN rt.ph ELSE 0

\* ============================================================ FileINode.Open
\* lockFile, then the handle id the new FileHandle will get
OpenLock(p, i) ==
  /\ Ready(p)
  /\ inoKind[i] = "file" /\ InTree(i)
  /\ FreeHandles # {}
  /\ fileMutex[i] = 0
  /\ fileMutex' = [fileMutex EXCEPT ![i] = p]
  /\ pc' = [pc EXCEPT ![p] = "open_new"]
  /\ loc' = [loc EXCEPT ![p] = [NoLoc EXCEPT !.op = "open", !.i = i,
                                            !.h = LeastOf(FreeHandles)]]
  /\ res' = NoLoc
  /\ UNCHANGED <<dfsVars, treeVars, attrVars, proxyVars, handleVars,
                 fileHandleMutex, handleMutex, dirMutex, crashed, allowedPrefixes, ftVars, sideVars, histVars>>

\* an open that always opens a DFS reader of its own: it would replace a
\* LocalRW proxy by a RemoteRO one
OpenProxyFresh(i, ok) == IF ok THEN "RemoteRO" ELSE "None"

\* the proxy NewFileHandle(existsInDFS = true) leaves behind: an existing
\* proxy is shared, otherwise a DFS reader is opened (ok: OpenRead succeeds)
OpenProxy(i, ok) ==
  IF fileProxy[i] # "None" THEN fileProxy[i]
  ELSE IF ok THEN "RemoteRO" ELSE "None"

NewFileHandle(p, ok) ==
  LET i == loc[p].i
      h == loc[p].h
      opens == fileProxy[i] = "None"
      fails == opens /\ (~ok \/ dfs[AbsolutePath(i)].kind # "file")
  IN
  /\ pc[p] = "open_new"
  /\ fileHandleMutex[i] = 0
  /\ IF fails
     THEN /\ fileMutex' = [fileMutex EXCEPT ![i] = 0]
          /\ Finish(p, [loc[p] EXCEPT !.st = "err", !.h = 0])
          /\ UNCHANGED <<proxyVars, fhFile>>
     ELSE /\ fileProxy' = [fileProxy EXCEPT ![i] = OpenProxy(i, TRUE)]
          /\ reader' = [reader EXCEPT
                          ![i] = IF opens THEN dfs[AbsolutePath(i)].data ELSE @]
          /\ fhFile' = [fhFile EXCEPT ![h] = i]
          /\ pc' = [pc EXCEPT ![p] = "open_add"]
          /\ loc' = [loc EXCEPT ![p].flag = opens]
          /\ UNCHANGED <<fileMutex, staging, stagingPos, res>>
  /\ UNCHANGED <<dfsVars, treeVars, attrVars, activeHandles, totalBytesWritten,
                 kernelHandles, fileHandleMutex, handleMutex, dirMutex, crashed, allowedPrefixes, ftVars, sideVars,
                 histVars>>

\* AddHandle, unlockFile, and the handle is returned to the kernel
AddHandle(p) ==
  LET i == loc[p].i
      h == loc[p].h
  IN
  /\ pc[p] = "open_add"
  /\ fileHandleMutex[i] = 0
  /\ activeHandles' = [activeHandles EXCEPT ![i] = Append(@, h)]
  /\ kernelHandles' = kernelHandles \cup {h}
  /\ fileMutex' = [fileMutex EXCEPT ![i] = 0]
  /\ rt' = RtOpen(i)
  /\ Finish(p, [loc[p] EXCEPT !.st = "ok"])
  /\ UNCHANGED <<dfsVars, treeVars, attrVars, proxyVars, fhFile, totalBytesWritten,
                 fileHandleMutex, handleMutex, dirMutex, crashed, allowedPrefixes, ftVars, sideVars, flushed, lastRename>>

\* ============================================================ FileHandle.Read
ReadLock(p, h, off, size) ==
  /\ Ready(p)
  /\ h \in kernelHandles
  /\ handleMutex[h] = 0
  /\ handleMutex' = [handleMutex EXCEPT ![h] = p]
  /\ pc' = [pc EXCEPT ![p] = "read_at"]
  /\ loc' = [loc EXCEPT ![p] = [NoLoc EXCEPT !.op = "read", !.h = h, !.i = fhFile[h],
                                            !.off = off, !.size = size]]
  /\ res' = NoLoc
  /\ UNCHANGED <<dfsVars, treeVars, attrVars, proxyVars, handleVars, fileMutex,
                 fileHandleMutex, dirMutex, crashed, allowedPrefixes, ftVars, sideVars, histVars>>

\* RemoteROFileProxy.ReadAt: Seek(off) fails beyond the end of the file; the
\* read loop fills the buffer until the reader answers EOF, and EOF with
\* n > 0 is no error
RemoteReadAt(c, off, size) ==
  LET data == Slice(c, off, size) IN
  IF off > Len(c) THEN [st |-> "err", data |-> <<>>]
  ELSE [st |-> IF Len(data) < size /\ Len(data) = 0 THEN "EOF" ELSE "ok",
        data |-> data]

\* LocalRWFileProxy.ReadAt: os.File.ReadAt answers EOF with every short read
LocalReadAt(c, off, size) ==
  LET data == Slice(c, off, size) IN
  [st |-> IF Len(data) < size THEN "EOF" ELSE "ok", data |-> data]

\* a Read that hands the error of the proxy to the kernel as it is
ReadErrorRaw(nr, err) == err

\* FileHandle.Read: EOF of the proxy with nr >= 0 is success
ReadError(nr, err) ==
  IF err = "EOF" THEN (IF nr >= 0 THEN "ok" ELSE err) ELSE err

\* fh.File.fileProxy.ReadAt: a nil proxy panics before any lock is taken
ReadAt(p) ==
  LET i == loc[p].i
      h == loc[p].h
      r == IF fileProxy[i] = "RemoteRO"
           THEN RemoteReadAt(reader[i], loc[p].off, loc[p].size)
           ELSE IF fileProxy[i] = "LocalRW"
           THEN LocalReadAt(staging[i], loc[p].off, loc[p].size)
           ELSE [st |-> "panic", data |-> <<>>]
  IN
  /\ pc[p] = "read_at"
  /\ fileProxy[i] = "None" \/ fileHandleMutex[i] = 0
  /\ handleMutex' = [handleMutex EXCEPT ![h] = 0]
  /\ Finish(p, [loc[p] EXCEPT !.st = ReadError(Len(r.data), r.st), !.opt = r.st,
                              !.data = r.data, !.ph = RtPhase(i),
                              !.flag = (fileProxy[i] = "LocalRW")])
  /\ UNCHANGED <<dfsVars, treeVars, attrVars, proxyVars, handleVars, fileMutex,
                 fileHandleMutex, dirMutex, crashed, allowedPrefixes, ftVars, sideVars, histVars>>

\* ------------------------------ RemoteROFileProxy.ReadAt, one raw Read a step
\* a ReadAt that hands io.EOF on although bytes were read
ReadAtErrorRaw(n, err) == err

\* ReadAt: io.EOF with n > 0 is no error
ReadAtError(n, err) == IF err = "EOF" /\ n > 0 THEN "ok" ELSE err

\* the answer FileHandle.Read gives for n bytes data and the proxy's error
ReadDone(p, data, err) ==
  [loc[p] EXCEPT !.st = ReadError(Len(data), err), !.opt = err, !.data = data,
                 !.ph = RtPhase(loc[p].i), !.flag = FALSE]

\* lockFileHandles and hdfsReader.Seek(off): the error of the seek is returned;
\* with an empty buffer the loop is not entered
ReadSeek(p) ==
  LET i == loc[p].i
      h == loc[p].h
      failed == loc[p].off > Len(reader[i])
  IN
  /\ pc[p] = "read_at"
  /\ fileProxy[i] = "RemoteRO"
  /\ fileHandleMutex[i] = 0
  /\ IF failed \/ loc[p].size = 0
     THEN /\ handleMutex' = [handleMutex EXCEPT ![h] = 0]
          /\ Finish(p, ReadDone(p, <<>>, IF failed THEN "err" ELSE "ok"))
          /\ UNCHANGED fileHandleMutex
     ELSE /\ fileHandleMutex' = [fileHandleMutex EXCEPT ![i] = p]
          /\ pc' = [pc EXCEPT ![p] = "rd_loop"]
          /\ UNCHANGED <<handleMutex, loc, res>>
  /\ UNCHANGED <<dfsVars, treeVars, attrVars, proxyVars, handleVars, fileMutex,
                 dirMutex, crashed, allowedPrefixes, ftVars, sideVars, histVars>>

\* one turn of the loop: hdfsReader.Read(b) delivers m bytes, between 1 and
\* len(b) and not beyond the end of the file, or io.EOF at the end; the loop
\* ends with an error or a full buffer, then unlockFileHandles
ReadChunk(p, m) ==
  LET i == loc[p].i
      h == loc[p].h
      pos == loc[p].off + Len(loc[p].data)
      left == loc[p].size - Len(loc[p].data)
      avail == Len(reader[i]) - pos
      e == IF avail <= 0 THEN "EOF" ELSE "ok"
      data == loc[p].data \o (IF e = "ok" THEN SubSeq(reader[i], pos + 1, pos + m) ELSE <<>>)
  IN
  /\ pc[p] = "rd_loop"
  /\ IF e = "ok" THEN m \in 1..Min(left, avail) ELSE m = 0
  /\ IF e # "ok" \/ Len(data) = loc[p].size
     THEN /\ fileHandleMutex' = [fileHandleMutex EXCEPT ![i] = 0]
          /\ handleMutex' = [handleMutex EXCEPT ![h] = 0]
          /\ Finish(p, [ReadDone(p, data, ReadAtError(Len(data), e)) EXCEPT !.k = @ + 1])
     ELSE /\ loc' = [loc EXCEPT ![p].data = data, ![p].k = @ + 1]
          /\ UNCHANGED <<pc, res, fileHandleMutex, handleMutex>>
  /\ UNCHANGED <<dfsVars, treeVars, attrVars, proxyVars, handleVars, fileMutex,
                 dirMutex, crashed, allowedPrefixes, ftVars, sideVars, histVars>>

\* =========================================================== FileHandle.Write
WriteLock(p, h, b, off) ==
  /\ Ready(p)
  /\ h \in kernelHandles
  /\ off + Len(b) <= MaxLen
  /\ totalBytesWritten[h] + Len(b) <= MaxWritten
  /\ handleMutex[h] = 0
  /\ handleMutex' = [handleMutex EXCEPT ![h] = p]
  /\ pc' = [pc EXCEPT ![p] = "upg"]
  /\ loc' = [loc EXCEPT ![p] = [NoLoc EXCEPT !.op = "write", !.h = h, !.i = fhFile[h],
                                            !.data = b, !.off = off]]
  /\ res' = NoLoc
  /\ UNCHANGED <<dfsVars, treeVars, attrVars, proxyVars, handleVars, fileMutex,
                 fileHandleMutex, dirMutex, crashed, allowedPrefixes, ftVars, sideVars, histVars>>

\* ================================================= FileINode.Setattr (size)
\* lockFile; with no open handle the loop body never runs and nil is returned
SetattrLock(p, i, size) ==
  /\ Ready(p)
  /\ inoKind[i] = "file" /\ InTree(i)
  /\ \A h \in SeqRange(activeHandles[i]) : totalBytesWritten[h] < MaxWritten
  /\ fileMutex[i] = 0
  /\ IF activeHandles[i] = <<>>
     THEN /\ Finish(p, [NoLoc EXCEPT !.op = "setattr", !.i = i, !.size = size,
                                     !.st = "ok"])
          /\ UNCHANGED fileMutex
     ELSE /\ fileMutex' = [fileMutex EXCEPT ![i] = p]
          /\ pc' = [pc EXCEPT ![p] = "trunc_lock"]
          /\ loc' = [loc EXCEPT ![p] = [NoLoc EXCEPT !.op = "setattr", !.i = i,
                                                    !.size = size, !.j = 1]]
          /\ res' = NoLoc
  /\ UNCHANGED <<dfsVars, treeVars, attrVars, proxyVars, handleVars,
                 fileHandleMutex, handleMutex, dirMutex, crashed, allowedPrefixes, ftVars, sideVars, histVars>>

\* FileHandle.Truncate of the next active handle: lockHandle
TruncateLock(p) ==
  LET i == loc[p].i
      h == activeHandles[i][loc[p].j]
  IN
  /\ pc[p] = "trunc_lock"
  /\ handleMutex[h] = 0
  /\ handleMutex' = [handleMutex EXCEPT ![h] = p]
  /\ pc' = [pc EXCEPT ![p] = "upg"]
  /\ loc' = [loc EXCEPT ![p].h = h]
  /\ UNCHANGED <<dfsVars, treeVars, attrVars, proxyVars, handleVars, fileMutex,
                 fileHandleMutex, dirMutex, crashed, allowedPrefixes, ftVars, sideVars, res, histVars>>

\* ========================================== FileINode.upgradeHandleForWriting
\* the locks a panicking handler releases through its deferred unlocks
Unwind(p, m) == [x \in DOMAIN m |-> IF m[x] = p THEN 0 ELSE m[x]]

\* index of the next handle of the file, from k on, that is not the caller's
NextPeer(i, me, k) ==
  LET hs == activeHandles[i]
      S == {x \in k..Len(hs) : hs[x] # me}
  IN IF S = {} THEN Len(hs) + 1 ELSE LeastOf(S)

\* lockFileHandles and the test of the proxy's type
upgradeHandleForWriting(p) ==
  LET i == loc[p].i IN
  /\ pc[p] = "upg"
  /\ fileHandleMutex[i] = 0
  /\ CASE fileProxy[i] = "LocalRW" ->
            /\ pc' = [pc EXCEPT ![p] = "apply"]
            /\ UNCHANGED <<loc, lockVars, res>>
       [] fileProxy[i] = "RemoteRO" ->
            /\ fileHandleMutex' = [fileHandleMutex EXCEPT ![i] = p]
            /\ pc' = [pc EXCEPT ![p] = "upg_peers"]
            /\ loc' = [loc EXCEPT ![p].k = 1]
            /\ UNCHANGED <<fileMutex, handleMutex, dirMutex, res>>
       [] OTHER ->  \* logger.Panic("Unrecognized remote file proxy")
            /\ Finish(p, [loc[p] EXCEPT !.st = "panic"])
            /\ handleMutex' = Unwind(p, handleMutex)
            /\ fileMutex' = Unwind(p, fileMutex)
            /\ UNCHANGED <<fileHandleMutex, dirMutex>>
  /\ UNCHANGED <<dfsVars, treeVars, attrVars, proxyVars, handleVars, crashed, allowedPrefixes, ftVars, sideVars, histVars>>

\* "lock n unlock all handles": lockHandle of the next other handle
UpgradeLockPeer(p) ==
  LET i == loc[p].i
      k == NextPeer(i, loc[p].h, loc[p].k)
  IN
  /\ pc[p] = "upg_peers"
  /\ k <= Len(activeHandles[i])
  /\ handleMutex[activeHandles[i][k]] = 0
  /\ handleMutex' = [handleMutex EXCEPT ![activeHandles[i][k]] = p]
  /\ loc' = [loc EXCEPT ![p].k = k + 1]
  /\ UNCHANGED <<dfsVars, treeVars, attrVars, proxyVars, handleVars, fileMutex,
                 fileHandleMutex, dirMutex, pc, crashed, allowedPrefixes, ftVars, sideVars, res, histVars>>

\* hdfsReader.Close(); file.fileProxy = nil
UpgradeCloseReader(p) ==
  LET i == loc[p].i IN
  /\ pc[p] = "upg_peers"
  /\ NextPeer(i, loc[p].h, loc[p].k) > Len(activeHandles[i])
  /\ fileProxy' = [fileProxy EXCEPT ![i] = "None"]
  /\ reader' = [reader EXCEPT ![i] = <<>>]
  /\ pc' = [pc EXCEPT ![p] = "upg_stage"]
  /\ UNCHANGED <<dfsVars, treeVars, attrVars, staging, stagingPos, handleVars,
                 lockVars, loc, crashed, allowedPrefixes, ftVars, sideVars, res, histVars>>

\* the proxy after checkDiskSpace and createStagingFile("Open", true):
\* ok is false when the disk is full or the DFS stat, open or copy fails
UpgradedProxy(i, ok) ==
  IF ok /\ dfs[AbsolutePath(i)].kind = "file" THEN "LocalRW" ELSE "None"

\* checkDiskSpace, createStagingFile, install LocalRW, and the deferred unlocks
\* of the peers and of fileHandleMutex; the caller drops the returned error
UpgradeStage(p, ok) ==
  LET i == loc[p].i
      me == loc[p].h
      np == UpgradedProxy(i, ok)
  IN
  /\ pc[p] = "upg_stage"
  /\ fileProxy' = [fileProxy EXCEPT ![i] = np]
  /\ staging' = [staging EXCEPT
                    ![i] = IF np = "LocalRW" THEN dfs[AbsolutePath(i)].data ELSE @]
  /\ stagingPos' = [stagingPos EXCEPT
                       ![i] = IF np = "LocalRW" THEN Len(dfs[AbsolutePath(i)].data) ELSE @]
  /\ handleMutex' = [h \in Handles |->
                       IF handleMutex[h] = p /\ h # me THEN 0 ELSE handleMutex[h]]
  /\ fileHandleMutex' = [fileHandleMutex EXCEPT ![i] = 0]
  /\ pc' = [pc EXCEPT ![p] = "apply"]
  /\ loc' = [loc EXCEPT ![p].flag = (np = "LocalRW")]
  /\ UNCHANGED <<dfsVars, treeVars, attrVars, reader, handleVars, fileMutex,
                 dirMutex, crashed, allowedPrefixes, ftVars, sideVars, res, histVars>>

\* ======================== fileProxy.WriteAt / fileProxy.Truncate of the caller
\* handles of file i lose their "flushed and unchanged since" mark
Unflush(i) == [h \in Handles |-> IF fhFile[h] = i THEN FALSE ELSE flushed[h]]

\* a nil proxy: the method call panics, the deferred unlocks run
ApplyNil(p) ==
  LET i == loc[p].i IN
  /\ pc[p] = "apply"
  /\ fileProxy[i] = "None"
  /\ Finish(p, [loc[p] EXCEPT !.st = "panic"])
  /\ handleMutex' = Unwind(p, handleMutex)
  /\ fileMutex' = Unwind(p, fileMutex)
  /\ UNCHANGED <<dfsVars, treeVars, attrVars, proxyVars, handleVars,
                 fileHandleMutex, dirMutex, crashed, allowedPrefixes, ftVars, sideVars, histVars>>

\* RemoteROFileProxy.WriteAt / Truncate: logger.Fatal ends the process
ApplyReadOnly(p) ==
  LET i == loc[p].i IN
  /\ pc[p] = "apply"
  /\ fileProxy[i] = "RemoteRO"
  /\ fileHandleMutex[i] = 0
  /\ crashed' = TRUE
  /\ UNCHANGED <<dfsVars, treeVars, attrVars, proxyVars, handleVars, lockVars,
                 pc, loc, allowedPrefixes, ftVars, sideVars, res, histVars>>

\* LocalRWFileProxy.WriteAt and the counter update of FileHandle.Write
WriteAt(p) ==
  LET i == loc[p].i
      h == loc[p].h
  IN
  /\ pc[p] = "apply" /\ loc[p].op = "write"
  /\ fileProxy[i] = "LocalRW"
  /\ fileHandleMutex[i] = 0
  /\ staging' = [staging EXCEPT ![i] = WriteAtContent(@, loc[p].data, loc[p].off)]
  /\ totalBytesWritten' = [totalBytesWritten EXCEPT ![h] = @ + Len(loc[p].data)]
  /\ handleMutex' = [handleMutex EXCEPT ![h] = 0]
  /\ flushed' = Unflush(i)
  /\ rt' = RtWrite(i, loc[p].data, loc[p].off)
  /\ lastRename' = IF h \in lastRename.hs
                   THEN [lastRename EXCEPT !.w = TRUE, !.fl = FALSE] ELSE lastRename
  /\ Finish(p, [loc[p] EXCEPT !.st = "ok"])
  /\ UNCHANGED <<dfsVars, treeVars, attrVars, fileProxy, reader, stagingPos,
                 activeHandles, fhFile, kernelHandles, fileMutex, fileHandleMutex,
                 dirMutex, crashed, allowedPrefixes, ftVars, sideVars>>

\* LocalRWFileProxy.Truncate returns |size after - size before|, which
\* FileHandle.Truncate adds to the counter; Setattr records the size and
\* goes on to the next handle, or unlocks the file after the last one. When
\* the staging file cannot be truncated (ok is false) Setattr keeps the error
\* for its return and records the size all the same
Truncate(p, ok) ==
  LET i == loc[p].i
      h == loc[p].h
      last == loc[p].j >= Len(activeHandles[i])
      failed == loc[p].failed \/ ~ok
  IN
  /\ pc[p] = "apply" /\ loc[p].op = "setattr"
  /\ fileProxy[i] = "LocalRW"
  /\ fileHandleMutex[i] = 0
  /\ staging' = [staging EXCEPT ![i] = IF ok THEN TruncateContent(@, loc[p].size) ELSE @]
  /\ totalBytesWritten' = [totalBytesWritten EXCEPT
                             ![h] = IF ok THEN @ + Abs(loc[p].size - Len(staging[i])) ELSE @]
  /\ attrSize' = [attrSize EXCEPT ![i] = loc[p].size]
  /\ handleMutex' = [handleMutex EXCEPT ![h] = 0]
  /\ flushed' = IF ok THEN Unflush(i) ELSE flushed
  /\ rt' = IF ok THEN RtTruncate(i, staging[i], loc[p].size) ELSE RtVoid(i)
  /\ UNCHANGED lastRename
  /\ IF last
     THEN /\ fileMutex' = [fileMutex EXCEPT ![i] = 0]
          /\ Finish(p, [loc[p] EXCEPT !.st = IF failed THEN "err" ELSE "ok",
                                      !.failed = failed])
     ELSE /\ pc' = [pc EXCEPT ![p] = "trunc_lock"]
          /\ loc' = [loc EXCEPT ![p].j = @ + 1, ![p].h = 0, ![p].failed = failed]
          /\ UNCHANGED <<fileMutex, res>>
  /\ UNCHANGED <<dfsVars, treeVars, attrExpired, fileProxy, reader, stagingPos,
                 activeHandles, fhFile, kernelHandles, fileHandleMutex, dirMutex,
                 crashed, allowedPrefixes, ftVars, sideVars>>

\* ============================= RetryPolicy and FaultTolerantHdfsAccessor.Stat
\* the retry policies of the command line, in ticks
RetryPolicies ==
  {pol \in [MaxAttempts : 0..MaxTries, MinDelay : 1..MaxDuration,
            MaxDelay : 1..MaxDuration, TimeLimit : 0..(MaxDuration + 1)] :
     pol.MinDelay <= pol.MaxDelay}

RECURSIVE Pow2(_)
Pow2(k) == IF k <= 0 THEN 1 ELSE 2 * Pow2(k - 1)

\* next_delay: the first retry is immediate, then min(max_delay, min_delay * 2^(attempt-1))
NextDelay(pol, attempt) ==
  IF attempt = 0 THEN 0 ELSE Min(pol.MaxDelay, pol.MinDelay * Pow2(attempt - 1))

\* should_retry: attempts < max_attempts and elapsed + next_delay <= time_limit
ShouldRetry(pol, attempt, elapsed) ==
  /\ attempt < pol.MaxAttempts
  /\ elapsed + NextDelay(pol, attempt) <= pol.TimeLimit

Errno(c) == [w |-> FALSE, t |-> "syscall", c |-> c]
OsErr(c) == [w |-> FALSE, t |-> "os", c |-> c]
EOF == [w |-> FALSE, t |-> "io", c |-> "EOF"]
Timeout == [w |-> FALSE, t |-> "other", c |-> "timeout"]
PathError(e) == [e EXCEPT !.w = TRUE]

\* the errors a raw call can end with
BareErrors ==
  {Errno(c) : c \in {"EEXIST", "ENOENT", "EACCES", "ENOTEMPTY", "EROFS", "EDQUOT",
                     "ENOLINK", "EPERM", "EBADF", "EIO", "EINVAL"}}
  \cup {OsErr(c) : c \in {"ErrNotExist", "ErrPermission", "ErrExist", "ErrClosed"}}
  \cup {EOF, Timeout}
RawErrors == BareErrors \cup {PathError(e) : e \in BareErrors}

isFuseOrSyscallError(err) == ~err.w /\ err.t \in {"syscall", "fuse"}

unwrapAndTranslateError(err) ==
  LET e == [err EXCEPT !.w = FALSE] IN
  IF isFuseOrSyscallError(err) THEN err
  ELSE IF err.w /\ isFuseOrSyscallError(e) THEN e
  ELSE IF e = OsErr("ErrNotExist") THEN Errno("ENOENT")
  ELSE IF e = OsErr("ErrPermission") THEN Errno("EPERM")
  ELSE IF e = OsErr("ErrExist") THEN Errno("EEXIST")
  ELSE IF e = OsErr("ErrClosed") THEN Errno("EBADF")
  ELSE IF e = EOF THEN e
  ELSE Errno("EIO")

isNonRetriableError(err) ==
  \/ err = EOF
  \/ err = [w |-> FALSE, t |-> "fuse", c |-> "EEXIST"]
  \/ err \in {Errno(c) : c \in {"ENOENT", "EACCES", "ENOTEMPTY", "EEXIST", "EROFS",
                                 "EDQUOT", "ENOLINK"}}
  \/ err \in {OsErr(c) : c \in {"ErrNotExist", "ErrPermission", "ErrExist", "ErrClosed"}}

\* nil and the errors of isNonRetriableError end the loop
IsSuccessOrNonRetriableError(err) ==
  err = Nil \/ isNonRetriableError(unwrapAndTranslateError(err))

\* how the loop treats the error of a raw call
ErrClass(err) ==
  IF err = Nil THEN "ok"
  ELSE IF IsSuccessOrNonRetriableError(err) THEN "fatal" ELSE "retriable"

\* a success, a non-retriable and a retriable error
SomeErrors == {Nil, Errno("ENOENT"), Timeout}

\* a retry loop that goes on until the raw call succeeds
LoopEndsOnSuccessOnly(err, again) == IsSuccessOrNonRetriableError(err)

\* the exit condition of the retry loop of every fault-tolerant call
LoopEnds(err, again) == IsSuccessOrNonRetriableError(err) \/ ~again

\* the methods of FaultTolerantHdfsAccessor
FtMethods == {"EnsureConnected", "OpenRead", "CreateFile", "ReadDir", "Stat", "StatFs",
              "Mkdir", "Remove", "Rename", "Chmod", "Chown", "Close"}

\* a wrapper in which every method has the retry loop
RetriesAll(m) == TRUE

\* the methods with a retry loop: CreateFile and Close hand the call on
Retries(m) == m \notin {"CreateFile", "Close"}

\* the methods whose loop calls Impl.Close() before the next turn
ClosesOnRetry(m) == Retries(m) /\ m # "EnsureConnected"

\* op := fta.RetryPolicy.StartOperation() of method m
StartOperation(p, pol, m) ==
  /\ Ready(p)
  /\ pc' = [pc EXCEPT ![p] = "ft_call"]
  /\ loc' = [loc EXCEPT ![p] = [NoLoc EXCEPT !.op = "ft", !.m = m, !.pol = pol]]
  /\ res' = NoLoc
  /\ UNCHANGED <<dfsVars, treeVars, attrVars, proxyVars, handleVars, lockVars,
                 crashed, allowedPrefixes, ftVars, sideVars, histVars>>

\* one turn of the loop: the raw call takes dur ticks and ends with err; the
\* loop ends with it, or ShouldRetry sleeps next_delay, counts the attempt and
\* the connection is closed for the next turn
FtCall(p, err, dur) ==
  LET l == loc[p]
      now == l.elapsed + dur
      again == ShouldRetry(l.pol, l.attempt, now)
      called == [l EXCEPT !.nstat = @ + 1, !.elapsed = now, !.err = err]
  IN
  /\ pc[p] = "ft_call"
  /\ now <= MaxElapsed
  /\ IF ~Retries(l.m) \/ LoopEnds(err, again)
     THEN Finish(p, [called EXCEPT !.st = ErrClass(err)])
     ELSE /\ loc' = [loc EXCEPT ![p] =
                       [called EXCEPT !.attempt = @ + 1,
                                      !.ncloses = IF ClosesOnRetry(l.m) THEN @ + 1 ELSE @,
                                      !.elapsed = now + NextDelay(l.pol, l.attempt),
                                      !.retryAt = now + NextDelay(l.pol, l.attempt)]]
          /\ UNCHANGED <<pc, res>>
  /\ UNCHANGED <<dfsVars, treeVars, attrVars, proxyVars, handleVars, lockVars,
                 crashed, allowedPrefixes, ftVars, sideVars, histVars>>

\* ================================================ FileHandle.Flush and Fsync
\* a flush that reports success whatever copyToDFS returned
FlushStatusOk(good) == "ok"

\* Flush and Fsync return the error of copyToDFS
FlushStatus(good) == IF good THEN "ok" ELSE "err"

\* the return of FileHandle.Flush / Fsync with answer r: to the kernel, or to
\* the loop of FileINode.Fsync, which keeps the last error in retErr
FlushReturn(p, r) ==
  IF loc[p].op = "fsyncfile"
  THEN /\ pc' = [pc EXCEPT ![p] = "fs_next"]
       /\ loc' = [loc EXCEPT ![p] = [r EXCEPT !.j = @ + 1, !.h = 0, !.st = "",
                                              !.opt = IF r.st # "ok" THEN r.st ELSE @]]
       /\ UNCHANGED res
  ELSE Finish(p, r)

\* the errors a step of FlushAttempt can end with
FlushErrors == {Timeout, Errno("EACCES"), EOF}

\* the retry policy of the mounted file system
MountPolicy == [MaxAttempts |-> MaxTries, MinDelay |-> 1, MaxDelay |-> 1,
                TimeLimit |-> MaxDuration + 1]

\* copyToDFS goes round its loop again unless
\* err != io.EOF || IsSuccessOrNonRetriableError(err) || !op.ShouldRetry(...)
CopyRetries(err, again) ==
  ~(err # EOF \/ IsSuccessOrNonRetriableError(err) \/ ~again)

\* Reconnect and try again: the next FlushAttempt starts at its Remove
FlushAgain(p, err) ==
  /\ pc' = [pc EXCEPT ![p] = "fl_remove"]
  /\ loc' = [loc EXCEPT ![p].attempt = @ + 1, ![p].err = err]
  /\ UNCHANGED res

\* lockHandle; dataChanged() is false: nothing to do
FlushLock(p, h, op) ==
  /\ Ready(p)
  /\ h \in kernelHandles
  /\ handleMutex[h] = 0
  /\ IF totalBytesWritten[h] > 0
     THEN /\ handleMutex' = [handleMutex EXCEPT ![h] = p]
          /\ pc' = [pc EXCEPT ![p] = "fl_remove"]
          /\ loc' = [loc EXCEPT ![p] = [NoLoc EXCEPT !.op = op, !.h = h, !.i = fhFile[h],
                                                    !.flag = flushed[h],
                                                    !.pol = MountPolicy,
                                                    !.retry = res.failed /\ res.h = h]]
          /\ res' = NoLoc
          /\ UNCHANGED <<flushed>>
     ELSE /\ Finish(p, [NoLoc EXCEPT !.op = op, !.h = h, !.i = fhFile[h],
                                     !.flag = flushed[h], !.st = "ok"])
          /\ flushed' = [flushed EXCEPT ![h] = TRUE]
          /\ UNCHANGED handleMutex
  /\ UNCHANGED <<dfsVars, treeVars, attrVars, proxyVars, handleVars, fileMutex,
                 fileHandleMutex, dirMutex, crashed, allowedPrefixes, ftVars, sideVars, rt, lastRename>>

\* FlushAttempt: hdfsAccessor.Remove of the file's current path, error ignored
FlushRemove(p) ==
  LET i == loc[p].i
      path == AbsolutePath(i)
  IN
  /\ pc[p] = "fl_remove"
  /\ dfs' = [dfs EXCEPT ![path] = IF @.kind = "file" THEN NoEnt ELSE @]
  /\ pc' = [pc EXCEPT ![p] = "fl_create"]
  /\ loc' = [loc EXCEPT ![p].k = @ + 1]
  /\ lastRename' = IF lastRename.i # i /\ Touches(path) THEN NoRename ELSE lastRename
  /\ UNCHANGED <<treeVars, attrVars, proxyVars, handleVars, lockVars, crashed, allowedPrefixes, ftVars, sideVars, res,
                 flushed, rt>>

\* FlushAttempt: hdfsAccessor.CreateFile(path, mode, overwrite = true), which
\* fails with fault or on a directory; on an error copyToDFS returns it and the deferred InvalidateMetadataCache runs
FlushCreate(p, fault) ==
  LET i == loc[p].i
      h == loc[p].h
      path == AbsolutePath(i)
      good == fault = Nil /\ dfs[path].kind # "dir"
      err == IF fault # Nil THEN fault ELSE Errno("EEXIST")
  IN
  /\ pc[p] = "fl_create"
  /\ IF good
     THEN /\ dfs' = [dfs EXCEPT ![path] = FileEnt(<<>>)]
          /\ pc' = [pc EXCEPT ![p] = "fl_seek"]
          /\ loc' = [loc EXCEPT ![p].k = @ + 1, ![p].d = path[1], ![p].n = path[2]]
          /\ UNCHANGED <<attrExpired, handleMutex, rt, res>>
     ELSE /\ IF CopyRetries(err, ShouldRetry(loc[p].pol, loc[p].attempt, 0))
             THEN /\ FlushAgain(p, err)
                  /\ UNCHANGED <<attrExpired, handleMutex, rt>>
             ELSE /\ attrExpired' = [attrExpired EXCEPT ![i] = TRUE]
                  /\ handleMutex' = [handleMutex EXCEPT ![h] = 0]
                  /\ rt' = RtVoid(i)
                  /\ FlushReturn(p, [loc[p] EXCEPT !.st = FlushStatus(FALSE), !.k = @ + 1,
                                                   !.failed = TRUE, !.err = err])
          /\ UNCHANGED dfs
  /\ UNCHANGED <<treeVars, attrSize, proxyVars, handleVars, fileMutex,
                 fileHandleMutex, dirMutex, crashed, allowedPrefixes, ftVars, sideVars, flushed, lastRename>>

\* FlushAttempt: fileProxy.SeekToStart (a nil proxy panics)
FlushSeek(p) ==
  LET i == loc[p].i
      h == loc[p].h
  IN
  /\ pc[p] = "fl_seek"
  /\ IF fileProxy[i] = "None"
     THEN /\ attrExpired' = [attrExpired EXCEPT ![i] = TRUE]
          /\ handleMutex' = [handleMutex EXCEPT ![h] = 0]
          /\ rt' = RtVoid(i)
          /\ fileMutex' = Unwind(p, fileMutex)
          /\ Finish(p, [loc[p] EXCEPT !.st = "panic", !.failed = TRUE])
          /\ UNCHANGED stagingPos
     ELSE /\ fileHandleMutex[i] = 0
          /\ stagingPos' = [stagingPos EXCEPT ![i] = 0]
          /\ pc' = [pc EXCEPT ![p] = "fl_copy"]
          /\ UNCHANGED <<attrExpired, handleMutex, fileMutex, rt, loc, res>>
  /\ UNCHANGED <<dfsVars, treeVars, attrSize, fileProxy, reader, staging, handleVars,
                 fileHandleMutex, dirMutex, crashed, allowedPrefixes, ftVars, sideVars, flushed, lastRename>>

\* FlushAttempt: read the staging file from its current offset to EOF, write
\* the chunks to the DFS writer, close it, record the size (fault is the
\* error of a DFS write or of the close, Nil when they succeed)
FlushCopy(p, fault) ==
  LET i == loc[p].i
      h == loc[p].h
      wpath == <<loc[p].d, loc[p].n>>
      data == IF fileProxy[i] = "LocalRW"
              THEN SubSeq(staging[i], stagingPos[i] + 1, Len(staging[i]))
              ELSE reader[i]
      good == fault = Nil /\ dfs[wpath].kind = "file"
      err == IF good THEN Nil ELSE IF fault # Nil THEN fault ELSE Errno("ENOENT")
  IN
  /\ pc[p] = "fl_copy"
  /\ fileProxy[i] # "None"
  /\ fileHandleMutex[i] = 0
  /\ stagingPos' = [stagingPos EXCEPT
                       ![i] = IF fileProxy[i] = "LocalRW" THEN Len(staging[i]) ELSE @]
  /\ dfs' = IF good THEN [dfs EXCEPT ![wpath] = FileEnt(data)] ELSE dfs
  /\ attrSize' = [attrSize EXCEPT ![i] = IF good THEN Len(data) ELSE @]
  /\ flushed' = IF good THEN [flushed EXCEPT ![h] = TRUE] ELSE flushed
  /\ lastRename' = IF good /\ h \in lastRename.hs /\ lastRename.w
                   THEN [lastRename EXCEPT !.fl = TRUE] ELSE lastRename
  /\ IF ~good /\ CopyRetries(err, ShouldRetry(loc[p].pol, loc[p].attempt, 0))
     THEN /\ FlushAgain(p, err)
          /\ UNCHANGED <<attrExpired, handleMutex, rt>>
     ELSE /\ attrExpired' = [attrExpired EXCEPT ![i] = TRUE]
          /\ handleMutex' = [handleMutex EXCEPT ![h] = 0]
          /\ rt' = IF good THEN RtFlushOk(i) ELSE RtVoid(i)
          /\ FlushReturn(p, [loc[p] EXCEPT !.st = FlushStatus(good), !.data = data,
                                           !.failed = @ \/ ~good, !.err = err])
  /\ UNCHANGED <<treeVars, fileProxy, reader, staging, handleVars, fileMutex,
                 fileHandleMutex, dirMutex, crashed, allowedPrefixes, ftVars, sideVars>>

\* ========================================================= FileINode.Fsync
\* lockFile, retErr = nil, and the loop over the active handles starts
FsyncFileLock(p, i) ==
  /\ Ready(p)
  /\ inoKind[i] = "file" /\ InTree(i)
  /\ fileMutex[i] = 0
  /\ fileMutex' = [fileMutex EXCEPT ![i] = p]
  /\ pc' = [pc EXCEPT ![p] = "fs_next"]
  /\ loc' = [loc EXCEPT ![p] = [NoLoc EXCEPT !.op = "fsyncfile", !.i = i, !.j = 1]]
  /\ res' = NoLoc
  /\ UNCHANGED <<dfsVars, treeVars, attrVars, proxyVars, handleVars,
                 fileHandleMutex, handleMutex, dirMutex, crashed, allowedPrefixes, ftVars, sideVars, histVars>>

\* the loop of FileINode.Fsync: FileHandle.Fsync of the next handle (lockHandle,
\* and copyToDFS if dataChanged()), or after the last one retErr and unlockFile
FsyncNext(p) ==
  LET i == loc[p].i
      j == loc[p].j
      h == activeHandles[i][j]
  IN
  /\ pc[p] = "fs_next"
  /\ IF j > Len(activeHandles[i])
     THEN /\ fileMutex' = [fileMutex EXCEPT ![i] = 0]
          /\ Finish(p, [loc[p] EXCEPT !.st = IF @ # "" THEN @
                                             ELSE IF loc[p].opt = "" THEN "ok"
                                             ELSE loc[p].opt])
          /\ UNCHANGED <<handleMutex, flushed>>
     ELSE /\ handleMutex[h] = 0
          /\ UNCHANGED <<fileMutex, res>>
          /\ IF totalBytesWritten[h] > 0
             THEN /\ handleMutex' = [handleMutex EXCEPT ![h] = p]
                  /\ pc' = [pc EXCEPT ![p] = "fl_remove"]
                  /\ loc' = [loc EXCEPT ![p].h = h, ![p].flag = flushed[h],
                                         ![p].pol = MountPolicy, ![p].attempt = 0]
                  /\ UNCHANGED flushed
             ELSE /\ pc' = pc
                  /\ loc' = [loc EXCEPT ![p].j = @ + 1]
                  /\ flushed' = [flushed EXCEPT ![h] = TRUE]
                  /\ UNCHANGED handleMutex
  /\ UNCHANGED <<dfsVars, treeVars, attrVars, proxyVars, handleVars,
                 fileHandleMutex, dirMutex, crashed, allowedPrefixes, ftVars, sideVars, rt, lastRename>>

\* ======================================================== FileHandle.Release
\* lockHandle and InvalidateMetadataCache; the kernel releases a handle only
\* when no request on it is in flight
ReleaseLock(p, h) ==
  /\ Ready(p)
  /\ h \in kernelHandles
  /\ ~InFlight(h)
  /\ handleMutex[h] = 0
  /\ handleMutex' = [handleMutex EXCEPT ![h] = p]
  /\ kernelHandles' = kernelHandles \ {h}
  /\ attrExpired' = [attrExpired EXCEPT ![fhFile[h]] = TRUE]
  /\ pc' = [pc EXCEPT ![p] = "rel_file"]
  /\ loc' = [loc EXCEPT ![p] = [NoLoc EXCEPT !.op = "release", !.h = h, !.i = fhFile[h]]]
  /\ res' = NoLoc
  /\ UNCHANGED <<dfsVars, treeVars, attrSize, proxyVars, activeHandles, fhFile,
                 totalBytesWritten, fileMutex, fileHandleMutex, dirMutex, crashed, allowedPrefixes, ftVars, sideVars,
                 histVars>>

\* RemoveHandle: lockFile
ReleaseLockFile(p) ==
  LET i == loc[p].i IN
  /\ pc[p] = "rel_file"
  /\ fileMutex[i] = 0
  /\ fileMutex' = [fileMutex EXCEPT ![i] = p]
  /\ pc' = [pc EXCEPT ![p] = "rel_remove"]
  /\ UNCHANGED <<dfsVars, treeVars, attrVars, proxyVars, handleVars,
                 fileHandleMutex, handleMutex, dirMutex, loc, crashed, allowedPrefixes, ftVars, sideVars, res, histVars>>

\* closeStaging: the proxy left once the handle list is empty
ClosedProxy(i, hs) == IF hs = <<>> THEN "None" ELSE fileProxy[i]

\* RemoveHandle: lockFileHandles, drop the handle, close the proxy with the
\* last one, and all deferred unlocks
RemoveHandle(p) ==
  LET i == loc[p].i
      h == loc[p].h
      hs == RemoveFromSeq(activeHandles[i], h)
      np == ClosedProxy(i, hs)
      closes == np = "None" /\ fileProxy[i] # "None"
  IN
  /\ pc[p] = "rel_remove"
  /\ fileHandleMutex[i] = 0
  /\ activeHandles' = [activeHandles EXCEPT ![i] = hs]
  /\ fileProxy' = [fileProxy EXCEPT ![i] = np]
  /\ reader' = [reader EXCEPT ![i] = IF closes THEN <<>> ELSE @]
  /\ staging' = [staging EXCEPT ![i] = IF closes THEN <<>> ELSE @]
  /\ stagingPos' = [stagingPos EXCEPT ![i] = IF closes THEN 0 ELSE @]
  /\ fhFile' = [fhFile EXCEPT ![h] = 0]
  /\ totalBytesWritten' = [totalBytesWritten EXCEPT ![h] = 0]
  /\ flushed' = [flushed EXCEPT ![h] = FALSE]
  /\ rt' = RtRelease(i, hs = <<>>)
  /\ lastRename' = [lastRename EXCEPT !.hs = @ \ {h}]
  /\ fileMutex' = [fileMutex EXCEPT ![i] = 0]
  /\ handleMutex' = [handleMutex EXCEPT ![h] = 0]
  /\ Finish(p, [loc[p] EXCEPT !.st = "ok"])
  /\ UNCHANGED <<dfsVars, treeVars, attrVars, kernelHandles, fileHandleMutex,
                 dirMutex, crashed, allowedPrefixes, ftVars, sideVars>>

\* ============================================= DirINode.children helpers
\* a removeChildInode that leaves the entry in the map: stale names survive
keepChildInode(ch, d, n) == ch

removeChildInode(ch, d, n) == [ch EXCEPT ![d][n] = 0]

adoptChildInode(ch, d, n, i) == [ch EXCEPT ![d][n] = i]

\* the in-memory tree as one record, for the helpers that compute its next value
Tree == [node |-> 0, children |-> children, inoKind |-> inoKind, inoName |-> inoName,
         inoParent |-> inoParent, attrSize |-> attrSize, attrExpired |-> attrExpired]

SetTree(t) ==
  /\ children' = t.children
  /\ inoKind' = t.inoKind
  /\ inoName' = t.inoName
  /\ inoParent' = t.inoParent
  /\ attrSize' = t.attrSize
  /\ attrExpired' = t.attrExpired

\* addOrUpdateChildInodeAttrs on tree t: an existing child gets the attributes,
\* otherwise a new FileINode or DirINode is put into the map
addOrUpdateChildInodeAttrs(t, d, n, kind, size, expired) ==
  LET old == t.children[d][n]
      x == IF old # 0 THEN old ELSE LeastOf({i \in Inodes : t.inoKind[i] = "free"})
  IN [node |-> x,
      children |-> [t.children EXCEPT ![d][n] = x],
      inoKind |-> IF old # 0 THEN t.inoKind ELSE [t.inoKind EXCEPT ![x] = kind],
      inoName |-> [t.inoName EXCEPT ![x] = n],
      inoParent |-> IF old # 0 THEN t.inoParent ELSE [t.inoParent EXCEPT ![x] = d],
      attrSize |-> [t.attrSize EXCEPT ![x] = size],
      attrExpired |-> [t.attrExpired EXCEPT ![x] = expired]]

\* statInodeInHopsFS on tree t, e being the answer of the DFS Stat: ENOENT drops
\* the child, otherwise the child is added or its attributes are replaced
statInodeInHopsFS(t, d, n, e) ==
  IF e.kind = "none"
  THEN [t EXCEPT !.node = 0, !.children = removeChildInode(t.children, d, n)]
  ELSE addOrUpdateChildInodeAttrs(t, d, n, e.kind, Len(e.data), FALSE)

\* LookupInt on tree t: the cached child, and only without one the DFS Stat
LookupInt(t, d, n, e) ==
  IF ~IsPathAllowed(AbsolutePathForChild(d, n)) THEN [t EXCEPT !.node = 0]
  ELSE IF t.children[d][n] # 0 THEN [t EXCEPT !.node = t.children[d][n]]
  ELSE statInodeInHopsFS(t, d, n, e)

\* a new inode object is needed and none of the model's is free
NeedsInode(d, n, e) == e.kind # "none" /\ children[d][n] = 0 /\ FreeInodes = {}

\* ========================================================== DirINode.Lookup
\* a lookup that takes a child whose attributes have expired for a miss
getChildInodeFresh(d, n) ==
  IF children[d][n] # 0 /\ attrExpired[children[d][n]] THEN 0 ELSE children[d][n]

\* getChildInode: the child cached under the name (0: none), whatever its Expires
getChildInode(d, n) == children[d][n]

\* lockMutex, IsPathAllowed and getChildInode: a path that is not allowed is
\* answered with ENOENT and a cached child is returned at once
LookupLock(p, d, n) ==
  /\ Ready(p)
  /\ dirMutex[d] = 0
  /\ IF ~IsPathAllowed(AbsolutePathForChild(d, n))
     THEN /\ Finish(p, [NoLoc EXCEPT !.op = "lookup", !.d = d, !.n = n, !.st = "ENOENT",
                                     !.pre = [NoPre EXCEPT !.src = children[d][n],
                                                           !.esrc = dfs[<<d, n>>]]])
          /\ UNCHANGED dirMutex
     ELSE IF getChildInode(d, n) # 0
     THEN /\ Finish(p, [NoLoc EXCEPT !.op = "lookup", !.d = d, !.n = n,
                                     !.i = getChildInode(d, n), !.st = "ok",
                                     !.size = attrSize[getChildInode(d, n)],
                                     !.pre = [NoPre EXCEPT !.src = children[d][n],
                                                           !.esrc = dfs[<<d, n>>]]])
          /\ UNCHANGED dirMutex
     ELSE /\ dirMutex' = [dirMutex EXCEPT ![d] = p]
          /\ pc' = [pc EXCEPT ![p] = "lk_stat"]
          /\ loc' = [loc EXCEPT ![p] = [NoLoc EXCEPT !.op = "lookup", !.d = d, !.n = n,
                                          !.pre = [NoPre EXCEPT !.src = children[d][n],
                                                                !.esrc = dfs[<<d, n>>]]]]
          /\ res' = NoLoc
  /\ UNCHANGED <<dfsVars, treeVars, attrVars, proxyVars, handleVars, fileMutex,
                 fileHandleMutex, handleMutex, crashed, allowedPrefixes, ftVars, sideVars, histVars>>

\* statInodeInHopsFS: the Stat RPC is answered
LookupStat(p) ==
  /\ pc[p] = "lk_stat"
  /\ pc' = [pc EXCEPT ![p] = "lk_upd"]
  /\ loc' = [loc EXCEPT ![p].ent = dfs[<<loc[p].d, loc[p].n>>], ![p].nstat = @ + 1]
  /\ UNCHANGED <<dfsVars, treeVars, attrVars, proxyVars, handleVars, lockVars,
                 crashed, allowedPrefixes, ftVars, sideVars, res, histVars>>

\* statInodeInHopsFS: removeChildInode or addOrUpdateChildInodeAttrs with the
\* answer, then the deferred unlockMutex
LookupUpdate(p) ==
  LET d == loc[p].d
      n == loc[p].n
      e == loc[p].ent
      t == statInodeInHopsFS(Tree, d, n, e)
  IN
  /\ pc[p] = "lk_upd"
  /\ ~NeedsInode(d, n, e)
  /\ SetTree(t)
  /\ dirMutex' = [dirMutex EXCEPT ![d] = 0]
  /\ Finish(p, [loc[p] EXCEPT !.i = t.node,
                              !.st = IF t.node = 0 THEN "ENOENT" ELSE "ok",
                              !.size = IF t.node = 0 THEN 0 ELSE t.attrSize[t.node]])
  /\ UNCHANGED <<dfsVars, proxyVars, handleVars, fileMutex, fileHandleMutex,
                 handleMutex, crashed, allowedPrefixes, ftVars, sideVars, histVars>>

\* ================================================ DirINode.Rename / Rename2
\* a Rename2 that drops the NOREPLACE flag
RenameOptionsNone(flags) == "NONE"

\* the hdfs rename options Rename2 derives from the FUSE flags
RenameOptions(flags) == IF flags = "noreplace" THEN "NO_REPLACE" ELSE "NONE"

\* the DFS rename: ENOENT without a source, EEXIST when the target exists and
\* NO_REPLACE is given; otherwise the target is replaced
DfsRenameErr(fsys, old, new, opt) ==
  IF fsys[old].kind = "none" THEN "ENOENT"
  ELSE IF fsys[new].kind # "none" /\ opt = "NO_REPLACE" THEN "EEXIST"
  ELSE "ok"

DfsRename(fsys, old, new) == [fsys EXCEPT ![old] = NoEnt, ![new] = fsys[old]]

\* lockMutex of the source directory, the flag test of Rename2, and renameInt's
\* LookupInt of the source name
RenameLock(p, d, n, d2, n2, flags) ==
  LET e == dfs[<<d, n>>]
      t == LookupInt(Tree, d, n, e)
      l == [NoLoc EXCEPT !.op = "rename", !.d = d, !.n = n, !.d2 = d2, !.n2 = n2,
                         !.rflags = flags, !.opt = RenameOptions(flags)]
  IN
  /\ Ready(p)
  /\ dirMutex[d] = 0
  /\ IF flags = "exchange"
     THEN /\ Finish(p, [l EXCEPT !.st = "EINVAL"])
          /\ UNCHANGED <<treeVars, attrVars, dirMutex>>
     ELSE /\ ~NeedsInode(d, n, e)
          /\ SetTree(t)
          /\ IF t.node = 0
             THEN /\ Finish(p, [l EXCEPT !.st = "ENOENT"])
                  /\ UNCHANGED dirMutex
             ELSE /\ dirMutex' = [dirMutex EXCEPT ![d] = p]
                  /\ pc' = [pc EXCEPT ![p] = "rn_dst"]
                  /\ loc' = [loc EXCEPT ![p] =
                       [l EXCEPT !.i = t.node,
                                 !.pre = [src |-> children[d][n], dst |-> children[d2][n2],
                                          esrc |-> e, edst |-> dfs[<<d2, n2>>]]]]
                  /\ res' = NoLoc
  /\ UNCHANGED <<dfsVars, proxyVars, handleVars, fileMutex, fileHandleMutex,
                 handleMutex, crashed, allowedPrefixes, ftVars, sideVars, histVars>>

\* renameInt: LookupInt of the target name in the target directory, whose
\* dirMutex is not taken
RenameDst(p) ==
  LET d2 == loc[p].d2
      n2 == loc[p].n2
      e == dfs[<<d2, n2>>]
      t == LookupInt(Tree, d2, n2, e)
  IN
  /\ pc[p] = "rn_dst"
  /\ ~NeedsInode(d2, n2, e)
  /\ SetTree(t)
  /\ pc' = [pc EXCEPT ![p] = "rn_dfs"]
  /\ loc' = [loc EXCEPT ![p].j2 = t.node]
  /\ UNCHANGED <<dfsVars, proxyVars, handleVars, lockVars, crashed, allowedPrefixes, ftVars, sideVars, res, histVars>>

\* renameInt: the DFS rename (ok is false when the RPC itself fails); an error
\* is returned after the deferred unlockMutex
RenameDFS(p, ok) ==
  LET old == <<loc[p].d, loc[p].n>>
      new == <<loc[p].d2, loc[p].n2>>
      err == IF ok THEN DfsRenameErr(dfs, old, new, loc[p].opt) ELSE "EIO"
  IN
  /\ pc[p] = "rn_dfs"
  /\ IF err = "ok"
     THEN /\ dfs' = DfsRename(dfs, old, new)
          /\ lastRename' = NoRename
          /\ pc' = [pc EXCEPT ![p] = "rn_unlink"]
          /\ loc' = [loc EXCEPT ![p].size = Len(dfs[old].data),
                                ![p].flag = /\ lastRename.i = loc[p].i
                                            /\ <<lastRename.d, lastRename.n>> = new
                                            /\ <<lastRename.d2, lastRename.n2>> = old]
          /\ UNCHANGED <<dirMutex, res>>
     ELSE /\ dirMutex' = [dirMutex EXCEPT ![loc[p].d] = 0]
          /\ Finish(p, [loc[p] EXCEPT !.st = err])
          /\ UNCHANGED <<dfs, lastRename>>
  /\ UNCHANGED <<treeVars, attrVars, proxyVars, handleVars, fileMutex,
                 fileHandleMutex, handleMutex, crashed, allowedPrefixes, ftVars, sideVars, flushed, rt>>

\* renameInt: "disconnect src inode", "disconnect dst inode"
Disconnected(ch, d, n, d2, n2, dstInode) ==
  LET c1 == removeChildInode(ch, d, n)
  IN IF dstInode # 0 THEN removeChildInode(c1, d2, n2) ELSE c1

RenameUnlink(p) ==
  /\ pc[p] = "rn_unlink"
  /\ children' = Disconnected(children, loc[p].d, loc[p].n, loc[p].d2, loc[p].n2,
                              loc[p].j2)
  /\ lastRename' = NoRename
  /\ pc' = [pc EXCEPT ![p] = "rn_adopt"]
  /\ UNCHANGED <<dfsVars, inoKind, inoName, inoParent, attrVars, proxyVars,
                 handleVars, lockVars, loc, crashed, allowedPrefixes, ftVars, sideVars, res, flushed, rt>>

\* an adoption that forgets to give the inode its new name and parent: the
\* inode's AbsolutePath stays the old one
AdoptedOnly(t, i, d2, n2) == [t EXCEPT !.children = adoptChildInode(@, d2, n2, i)]

\* renameInt: the source inode gets the new name and parent and is adopted by
\* the target directory (the same for a FileINode and a DirINode)
Reparented(t, i, d2, n2) ==
  [t EXCEPT !.inoName = [@ EXCEPT ![i] = n2],
            !.inoParent = [@ EXCEPT ![i] = d2],
            !.children = adoptChildInode(@, d2, n2, i)]

RenameAdopt(p) ==
  LET i == loc[p].i IN
  /\ pc[p] = "rn_adopt"
  /\ SetTree(Reparented(Tree, i, loc[p].d2, loc[p].n2))
  /\ lastRename' = [i |-> i, d |-> loc[p].d, n |-> loc[p].n, d2 |-> loc[p].d2,
                    n2 |-> loc[p].n2, size |-> loc[p].size,
                    hs |-> SeqRange(activeHandles[i]) \cap kernelHandles,
                    w |-> FALSE, fl |-> FALSE, rep |-> loc[p].pre.edst.kind # "none",
                    back |-> loc[p].flag]
  /\ pc' = [pc EXCEPT ![p] = "rn_ret"]
  /\ UNCHANGED <<dfsVars, proxyVars, handleVars, lockVars, loc, crashed, allowedPrefixes, ftVars, sideVars, res, flushed, rt>>

\* the deferred unlockMutex of the source directory; nil is returned
RenameUnlock(p) ==
  /\ pc[p] = "rn_ret"
  /\ dirMutex' = [dirMutex EXCEPT ![loc[p].d] = 0]
  /\ Finish(p, [loc[p] EXCEPT !.st = "ok"])
  /\ UNCHANGED <<dfsVars, treeVars, attrVars, proxyVars, handleVars, fileMutex,
                 fileHandleMutex, handleMutex, crashed, allowedPrefixes, ftVars, sideVars, histVars>>

\* ========================================================== DirINode.Create
\* the answer of the DFS Remove: a missing path and a failing RPC are errors
DfsRemoveErr(fsys, path, ok) ==
  IF fsys[path].kind = "none" THEN "ENOENT" ELSE IF ok THEN "ok" ELSE "EIO"

\* the DFS after the Remove that follows a failed chown; the result of this
\* Remove is not looked at
MkdirUndone(fsys, path, okRemove) ==
  IF DfsRemoveErr(fsys, path, okRemove) = "ok" THEN [fsys EXCEPT ![path] = NoEnt]
  ELSE fsys

\* lockMutex and addOrUpdateChildInodeAttrs with the new file's attributes
\* (no size, an expiry in the past)
CreateLock(p, d, n) ==
  LET t == addOrUpdateChildInodeAttrs(Tree, d, n, "file", 0, TRUE) IN
  /\ Ready(p)
  /\ children[d][n] = 0
  /\ dirMutex[d] = 0
  /\ FreeHandles # {} /\ FreeInodes # {}
  /\ SetTree(t)
  /\ dirMutex' = [dirMutex EXCEPT ![d] = p]
  /\ lastRename' = IF Touches(<<d, n>>) THEN NoRename ELSE lastRename
  /\ pc' = [pc EXCEPT ![p] = "cr_new"]
  /\ loc' = [loc EXCEPT ![p] = [NoLoc EXCEPT !.op = "create", !.d = d, !.n = n,
                                            !.i = t.node, !.h = LeastOf(FreeHandles)]]
  /\ res' = NoLoc
  /\ UNCHANGED <<dfsVars, proxyVars, handleVars, fileMutex, fileHandleMutex,
                 handleMutex, crashed, allowedPrefixes, ftVars, sideVars, flushed, rt>>

\* NewFileHandle(existsInDFS = false): checkDiskSpace and createStagingFile,
\* whose CreateFile(overwrite = false) makes the empty DFS file, then AddHandle;
\* on an error Create drops the child again (ok is false when the disk is full
\* or the RPC fails)
CreateNewHandle(p, ok) ==
  LET i == loc[p].i
      h == loc[p].h
      d == loc[p].d
      n == loc[p].n
      good == ok /\ dfs[<<d, n>>].kind = "none"
  IN
  /\ pc[p] = "cr_new"
  /\ fileHandleMutex[i] = 0
  /\ IF good
     THEN /\ dfs' = [dfs EXCEPT ![<<d, n>>] = FileEnt(<<>>)]
          /\ fileProxy' = [fileProxy EXCEPT ![i] = "LocalRW"]
          /\ staging' = [staging EXCEPT ![i] = <<>>]
          /\ stagingPos' = [stagingPos EXCEPT ![i] = 0]
          /\ fhFile' = [fhFile EXCEPT ![h] = i]
          /\ activeHandles' = [activeHandles EXCEPT ![i] = Append(@, h)]
          /\ pc' = [pc EXCEPT ![p] = "cr_chown"]
          /\ UNCHANGED <<children, dirMutex, loc, res>>
     ELSE /\ children' = removeChildInode(children, d, n)
          /\ dirMutex' = [dirMutex EXCEPT ![d] = 0]
          /\ Finish(p, [loc[p] EXCEPT !.st = "err", !.h = 0])
          /\ UNCHANGED <<dfs, fileProxy, staging, stagingPos, fhFile, activeHandles>>
  /\ UNCHANGED <<inoKind, inoName, inoParent, attrVars, reader, totalBytesWritten,
                 kernelHandles, fileMutex, fileHandleMutex, handleMutex, crashed, allowedPrefixes, ftVars, sideVars,
                 histVars>>

\* ChownOp; on its failure the DFS Remove is called, its result not looked at
\* (okRemove), and the child dropped, the handle stays in activeHandles; otherwise statInodeInHopsFS refreshes the
\* attributes and the node and the handle are returned
CreateChown(p, ok, okRemove) ==
  LET i == loc[p].i
      h == loc[p].h
      d == loc[p].d
      n == loc[p].n
      t == statInodeInHopsFS(Tree, d, n, dfs[<<d, n>>])
  IN
  /\ pc[p] = "cr_chown"
  /\ IF ok
     THEN /\ ~NeedsInode(d, n, dfs[<<d, n>>])
          /\ SetTree(t)
          /\ kernelHandles' = IF t.node # 0 THEN kernelHandles \cup {h} ELSE kernelHandles
          /\ rt' = IF t.node # 0 THEN [NoRt EXCEPT !.ph = 1, !.i = i] ELSE rt
          /\ Finish(p, [loc[p] EXCEPT !.st = IF t.node # 0 THEN "ok" ELSE "ENOENT"])
          /\ UNCHANGED dfs
     ELSE /\ dfs' = MkdirUndone(dfs, <<d, n>>, okRemove)
          /\ children' = removeChildInode(children, d, n)
          /\ Finish(p, [loc[p] EXCEPT !.st = "err"])
          /\ UNCHANGED <<inoKind, inoName, inoParent, attrVars, kernelHandles, rt>>
  /\ dirMutex' = [dirMutex EXCEPT ![d] = 0]
  /\ UNCHANGED <<proxyVars, activeHandles, fhFile, totalBytesWritten, fileMutex,
                 fileHandleMutex, handleMutex, crashed, allowedPrefixes, ftVars, sideVars, flushed, lastRename>>

\* ======================================== FileINode.Attr and DirINode.Attr
\* an Attr that asks the DFS whenever the file is not staged locally
AttrAlwaysStat(i) == fileProxy[i] # "LocalRW"

\* the cached attributes are refreshed from the DFS only once they have
\* expired, and never while the file is staged locally
AttrNeedsStat(i) == fileProxy[i] # "LocalRW" /\ attrExpired[i]

\* the lock of the inode (lockFile of a file; the dirMutex of a leaf directory
\* is taken by Attr alone), then the answer from the staging file or the cache
\* an Attr that answers a file open for writing from the cached attributes
CachedSize(i) == attrSize[i]

\* localFile.Stat(): the length of the staging file
StagedSize(i) == Len(staging[i])

AttrLock(p, i) ==
  LET r == [NoLoc EXCEPT !.op = "attr", !.i = i, !.opt = fileProxy[i],
                         !.flag = attrExpired[i], !.cached = attrSize[i]]
  IN
  /\ Ready(p)
  /\ inoKind[i] # "free"
  /\ inoKind[i] = "file" => fileMutex[i] = 0
  /\ IF fileProxy[i] = "LocalRW"
     THEN /\ attrSize' = [attrSize EXCEPT ![i] = StagedSize(i)]
          /\ Finish(p, [r EXCEPT !.st = "ok", !.size = StagedSize(i)])
          /\ UNCHANGED fileMutex
     ELSE IF AttrNeedsStat(i)
     THEN /\ fileMutex' = IF inoKind[i] = "file" THEN [fileMutex EXCEPT ![i] = p]
                          ELSE fileMutex
          /\ pc' = [pc EXCEPT ![p] = "at_stat"]
          /\ loc' = [loc EXCEPT ![p] = r]
          /\ res' = NoLoc
          /\ UNCHANGED attrSize
     ELSE /\ Finish(p, [r EXCEPT !.st = "ok", !.size = attrSize[i]])
          /\ UNCHANGED <<attrSize, fileMutex>>
  /\ UNCHANGED <<dfsVars, treeVars, attrExpired, proxyVars, handleVars,
                 fileHandleMutex, handleMutex, dirMutex, crashed, allowedPrefixes, ftVars, sideVars, histVars>>

\* Parent.statInodeInHopsFS: the Stat RPC for the path the inode has now
AttrStat(p) ==
  LET i == loc[p].i IN
  /\ pc[p] = "at_stat"
  /\ pc' = [pc EXCEPT ![p] = "at_upd"]
  /\ loc' = [loc EXCEPT ![p].ent = dfs[AbsolutePath(i)], ![p].nstat = @ + 1,
                        ![p].d = inoParent[i], ![p].n = inoName[i]]
  /\ UNCHANGED <<dfsVars, treeVars, attrVars, proxyVars, handleVars, lockVars,
                 crashed, allowedPrefixes, ftVars, sideVars, res, histVars>>

\* statInodeInHopsFS with the answer: on an error removeChildInode and the
\* error; otherwise the inode's own Attrs are overwritten through the pointer
\* and addOrUpdateChildInodeAttrs runs for the name; then the deferred unlock
AttrUpdate(p) ==
  LET i == loc[p].i
      d == loc[p].d
      n == loc[p].n
      e == loc[p].ent
      own == [Tree EXCEPT !.attrSize[i] = Len(e.data), !.attrExpired[i] = FALSE]
      t == addOrUpdateChildInodeAttrs(own, d, n, e.kind, Len(e.data), FALSE)
  IN
  /\ pc[p] = "at_upd"
  /\ IF e.kind = "none"
     THEN /\ children' = removeChildInode(children, d, n)
          /\ Finish(p, [loc[p] EXCEPT !.st = "ENOENT"])
          /\ UNCHANGED <<inoKind, inoName, inoParent, attrVars>>
     ELSE /\ ~NeedsInode(d, n, e)
          /\ SetTree(t)
          /\ Finish(p, [loc[p] EXCEPT !.st = "ok", !.size = t.attrSize[i]])
  /\ fileMutex' = [fileMutex EXCEPT ![i] = IF @ = p THEN 0 ELSE @]
  /\ lastRename' = IF Touches(<<d, n>>) THEN NoRename ELSE lastRename
  /\ UNCHANGED <<dfsVars, proxyVars, handleVars, fileHandleMutex, handleMutex,
                 dirMutex, crashed, allowedPrefixes, ftVars, sideVars, flushed, rt>>

\* time passes beyond the Expires of the inode's cached attributes
ClockElapsed(i) ==
  /\ inoKind[i] # "free"
  /\ ~attrExpired[i]
  /\ attrExpired' = [attrExpired EXCEPT ![i] = TRUE]
  /\ UNCHANGED <<dfsVars, treeVars, attrSize, proxyVars, handleVars, lockVars,
                 pc, loc, crashed, allowedPrefixes, ftVars, sideVars, res, histVars>>

\* another client of the DFS replaces the content of a file
DfsChanged(d, n) ==
  /\ dfs[<<d, n>>].kind = "file"
  /\ dfs' = [dfs EXCEPT ![<<d, n>>] =
               FileEnt(IF Len(@.data) = 1 THEN <<8, 8>> ELSE <<8>>)]
  /\ lastRename' = IF Touches(<<d, n>>) THEN NoRename ELSE lastRename
  /\ UNCHANGED <<treeVars, attrVars, proxyVars, handleVars, lockVars,
                 pc, loc, crashed, allowedPrefixes, ftVars, sideVars, res, flushed, rt>>

\* ===================================================== DirINode.ReadDirAll
\* lockMutex of the directory
ReadDirLock(p, d) ==
  /\ Ready(p)
  /\ dirMutex[d] = 0
  /\ dirMutex' = [dirMutex EXCEPT ![d] = p]
  /\ pc' = [pc EXCEPT ![p] = "rd_dfs"]
  /\ loc' = [loc EXCEPT ![p] = [NoLoc EXCEPT !.op = "readdir", !.d = d]]
  /\ res' = NoLoc
  /\ UNCHANGED <<dfsVars, treeVars, attrVars, proxyVars, handleVars, fileMutex,
                 fileHandleMutex, handleMutex, crashed, allowedPrefixes, ftVars, sideVars, histVars>>

\* the order in which the DFS lists the names of a directory
NameOrder == <<"a", "b">>

\* the answer of the DFS ReadDir: the names of the directory's entries
DfsReadDir(fsys, d) == SelectSeq(NameOrder, LAMBDA n : fsys[<<d, n>>].kind # "none")

\* the loop of ReadDirAll: the entries whose path is allowed, in DFS order
AllowedEntries(d, listing) ==
  SelectSeq(listing, LAMBDA n : IsPathAllowed(AbsolutePathForChild(d, n)))

\* the loop of ReadDirAll: addOrUpdateChildInodeAttrs for every entry returned
ChildrenAdded(t, d, entries) ==
  LET f[k \in 0..Len(entries)] ==
        IF k = 0 THEN t
        ELSE addOrUpdateChildInodeAttrs(f[k - 1], d, entries[k],
                                        dfs[<<d, entries[k]>>].kind,
                                        Len(dfs[<<d, entries[k]>>].data), FALSE)
  IN f[Len(entries)]

\* the DFS ReadDir, the filtering loop, and the deferred unlockMutex
ReadDirDFS(p, ok) ==
  LET d == loc[p].d
      entries == AllowedEntries(d, DfsReadDir(dfs, d))
  IN
  /\ pc[p] = "rd_dfs"
  /\ IF ok
     THEN /\ Cardinality({n \in SeqRange(entries) : children[d][n] = 0})
               <= Cardinality(FreeInodes)
          /\ SetTree(ChildrenAdded(Tree, d, entries))
          /\ Finish(p, [loc[p] EXCEPT !.st = "ok", !.data = entries])
     ELSE /\ Finish(p, [loc[p] EXCEPT !.st = "EIO"])
          /\ UNCHANGED <<treeVars, attrVars>>
  /\ dirMutex' = [dirMutex EXCEPT ![d] = 0]
  /\ UNCHANGED <<dfsVars, proxyVars, handleVars, fileMutex, fileHandleMutex,
                 handleMutex, crashed, allowedPrefixes, ftVars, sideVars, histVars>>

\* ========================================================= DirINode.Remove
\* lockMutex of the directory
RemoveLock(p, d, n) ==
  /\ Ready(p)
  /\ dirMutex[d] = 0
  /\ dirMutex' = [dirMutex EXCEPT ![d] = p]
  /\ pc' = [pc EXCEPT ![p] = "rm_dfs"]
  /\ loc' = [loc EXCEPT ![p] = [NoLoc EXCEPT !.op = "remove", !.d = d, !.n = n,
                                             !.pre = [NoPre EXCEPT !.src = children[d][n],
                                                                   !.esrc = dfs[<<d, n>>]]]]
  /\ res' = NoLoc
  /\ UNCHANGED <<dfsVars, treeVars, attrVars, proxyVars, handleVars, fileMutex,
                 fileHandleMutex, handleMutex, crashed, allowedPrefixes, ftVars, sideVars, histVars>>

\* a Remove that drops the child whatever the DFS answered
RemovedAlways(ch, d, n, err) == [ch EXCEPT ![d][n] = 0]

\* the children map after Remove: the child is dropped only when err == nil
RemovedChild(ch, d, n, err) ==
  IF err = "ok" THEN removeChildInode(ch, d, n) ELSE ch

\* the DFS Remove, removeChildInode on success, and the deferred unlockMutex
RemoveDFS(p, ok) ==
  LET d == loc[p].d
      n == loc[p].n
      err == DfsRemoveErr(dfs, <<d, n>>, ok)
  IN
  /\ pc[p] = "rm_dfs"
  /\ dfs' = IF err = "ok" THEN [dfs EXCEPT ![<<d, n>>] = NoEnt] ELSE dfs
  /\ children' = RemovedChild(children, d, n, err)
  /\ dirMutex' = [dirMutex EXCEPT ![d] = 0]
  /\ lastRename' = IF Touches(<<d, n>>) THEN NoRename ELSE lastRename
  /\ Finish(p, [loc[p] EXCEPT !.st = err])
  /\ UNCHANGED <<inoKind, inoName, inoParent, attrVars, proxyVars, handleVars,
                 fileMutex, fileHandleMutex, handleMutex, crashed, allowedPrefixes, ftVars, sideVars, flushed, rt>>

\* ========================================================== DirINode.Mkdir
\* lockMutex, getUserName and getGroupName: without a user or group the
\* handler returns before any DFS call
MkdirLock(p, d, n, okUser) ==
  /\ Ready(p)
  /\ dirMutex[d] = 0
  /\ IF okUser
     THEN /\ dirMutex' = [dirMutex EXCEPT ![d] = p]
          /\ pc' = [pc EXCEPT ![p] = "mk_dfs"]
          /\ loc' = [loc EXCEPT ![p] = [NoLoc EXCEPT !.op = "mkdir", !.d = d, !.n = n,
                                          !.pre = [NoPre EXCEPT !.src = children[d][n],
                                                                !.esrc = dfs[<<d, n>>]]]]
          /\ res' = NoLoc
     ELSE /\ Finish(p, [NoLoc EXCEPT !.op = "mkdir", !.d = d, !.n = n, !.st = "EUSER",
                                     !.pre = [NoPre EXCEPT !.src = children[d][n],
                                                           !.esrc = dfs[<<d, n>>]]])
          /\ UNCHANGED dirMutex
  /\ UNCHANGED <<dfsVars, treeVars, attrVars, proxyVars, handleVars, fileMutex,
                 fileHandleMutex, handleMutex, crashed, allowedPrefixes, ftVars, sideVars, histVars>>

\* HdfsAccessorImpl.Mkdir: only "file already exists" is returned as an error,
\* every other failure of the client is dropped and nil is returned
DfsMkdirErr(fsys, path, ok) ==
  IF fsys[path].kind # "none" THEN "EEXIST" ELSE "ok"

\* the DFS Mkdir RPC: ok is false when the client fails
MkdirDFS(p, ok) ==
  LET d == loc[p].d
      n == loc[p].n
      err == DfsMkdirErr(dfs, <<d, n>>, ok)
  IN
  /\ pc[p] = "mk_dfs"
  /\ IF err # "ok"
     THEN /\ dirMutex' = [dirMutex EXCEPT ![d] = 0]
          /\ Finish(p, [loc[p] EXCEPT !.st = err])
          /\ UNCHANGED dfs
     ELSE /\ dfs' = IF ok THEN [dfs EXCEPT ![<<d, n>>] = DirEnt] ELSE dfs
          /\ pc' = [pc EXCEPT ![p] = "mk_chown"]
          /\ loc' = [loc EXCEPT ![p].flag = ok]
          /\ UNCHANGED <<dirMutex, res>>
  /\ UNCHANGED <<treeVars, attrVars, proxyVars, handleVars, fileMutex,
                 fileHandleMutex, handleMutex, crashed, allowedPrefixes, ftVars, sideVars, histVars>>

\* ChownOp; on failure the DFS Remove and the chown error; on success
\* addOrUpdateChildInodeAttrs with attributes that carry no Expires
MkdirChown(p, ok, okRemove) ==
  LET d == loc[p].d
      n == loc[p].n
      chowned == ok /\ dfs[<<d, n>>].kind # "none"
      t == addOrUpdateChildInodeAttrs(Tree, d, n, "dir", 0, TRUE)
  IN
  /\ pc[p] = "mk_chown"
  /\ IF chowned
     THEN /\ ~NeedsInode(d, n, DirEnt)
          /\ SetTree(t)
          /\ Finish(p, [loc[p] EXCEPT !.st = "ok", !.i = t.node])
          /\ UNCHANGED dfs
     ELSE /\ dfs' = MkdirUndone(dfs, <<d, n>>, okRemove)
          /\ Finish(p, [loc[p] EXCEPT !.st = "ECHOWN"])
          /\ UNCHANGED <<treeVars, attrVars>>
  /\ dirMutex' = [dirMutex EXCEPT ![d] = 0]
  /\ lastRename' = IF Touches(<<d, n>>) THEN NoRename ELSE lastRename
  /\ UNCHANGED <<proxyVars, handleVars, fileMutex, fileHandleMutex, handleMutex,
                 crashed, allowedPrefixes, ftVars, sideVars, flushed, rt>>

\* ================================== DirINode.Forget and FileINode.Forget
\* the children map had Forget dropped the inode from its parent by name
ForgottenByName(ch, i) == removeChildInode(ch, inoParent[i], inoName[i])

\* the children map after a Forget of inode i: the handler locks and unlocks
\* the inode's mutex and touches no map
Forgotten(ch, i) == ch

\* FileINode.Forget: lockFile, the deferred unlockFile
Forget(p, i) ==
  /\ Ready(p)
  /\ inoKind[i] = "file"
  /\ fileMutex[i] = 0
  /\ children' = Forgotten(children, i)
  /\ Finish(p, [NoLoc EXCEPT !.op = "forget", !.i = i, !.st = "ok",
                             !.flag = InTree(i)])
  /\ UNCHANGED <<dfsVars, inoKind, inoName, inoParent, attrVars, proxyVars,
                 handleVars, lockVars, crashed, allowedPrefixes, ftVars, sideVars, histVars>>

\* the children maps after a Forget of the directory d
ForgottenDir(ch, d) == ch

\* DirINode.Forget: lockMutex, the deferred unlockMutex
ForgetDir(p, d) ==
  /\ Ready(p)
  /\ dirMutex[d] = 0
  /\ children' = ForgottenDir(children, d)
  /\ Finish(p, [NoLoc EXCEPT !.op = "forget", !.d = d, !.st = "ok"])
  /\ UNCHANGED <<dfsVars, inoKind, inoName, inoParent, attrVars, proxyVars,
                 handleVars, lockVars, crashed, allowedPrefixes, ftVars, sideVars, histVars>>

\* ============================================ FileSystem.getDFSConnector
\* the slots of FileSystem.HdfsAccessors
ConnectorSlots == 0..(Connectors - 1)

\* index := filesystem.hdfsAccessorsIndex % len(filesystem.HdfsAccessors)
ConnectorIndex(ix) == ix % Connectors

\* the right-hand side of the assignment: the field is read
getDFSConnector(p) ==
  /\ Ready(p)
  /\ hdfsAccessorsIndex < MaxCalls
  /\ pc' = [pc EXCEPT ![p] = "gc_store"]
  /\ loc' = [loc EXCEPT ![p] = [NoLoc EXCEPT !.op = "connector",
                                            !.k = hdfsAccessorsIndex + 1]]
  /\ res' = NoLoc
  /\ UNCHANGED <<fsVars, poolVars, sigVars, ugVars, rarVars>>

\* filesystem.hdfsAccessorsIndex = ... + 1: the field is written, no lock held
ConnectorStore(p) ==
  /\ pc[p] = "gc_store"
  /\ hdfsAccessorsIndex' = loc[p].k
  /\ pc' = [pc EXCEPT ![p] = "gc_index"]
  /\ UNCHANGED <<fsVars, loc, res, handedOut, sigVars, ugVars, rarVars>>

\* the field is read again for the index; HdfsAccessors[index] is returned
ConnectorReturn(p) ==
  LET index == ConnectorIndex(hdfsAccessorsIndex) IN
  /\ pc[p] = "gc_index"
  /\ handedOut' = IF Len(handedOut) < Connectors THEN Append(handedOut, index)
                  ELSE Append(Tail(handedOut), index)
  /\ Finish(p, [loc[p] EXCEPT !.st = "ok", !.size = index, !.k = 0])
  /\ UNCHANGED <<fsVars, hdfsAccessorsIndex, sigVars, ugVars, rarVars>>

\* ============================= the SIGINT/SIGTERM handler and the retry loops
\* a handler that resets max_delay only
ResetDelayOnly(pol) == pol

\* retryPolicy.MaxAttempts = 0
ResetAttempts(pol) == [pol EXCEPT !.MaxAttempts = 0]

\* retryPolicy.MaxDelay = 0
ResetDelay(pol) == [pol EXCEPT !.MaxDelay = 0]

\* a signal arrives on sigs: the handler logs it and calls Unmount
SignalReceived ==
  /\ sigStep = 0
  /\ sigStep' = 1
  /\ UNCHANGED <<fsVars, pc, loc, res, poolVars, retryPolicy, ugVars, rarVars>>

SignalResetAttempts ==
  /\ sigStep = 1
  /\ retryPolicy' = ResetAttempts(retryPolicy)
  /\ sigStep' = 2
  /\ UNCHANGED <<fsVars, pc, loc, res, poolVars, ugVars, rarVars>>

SignalResetDelay ==
  /\ sigStep = 2
  /\ retryPolicy' = ResetDelay(retryPolicy)
  /\ sigStep' = 3
  /\ UNCHANGED <<fsVars, pc, loc, res, poolVars, ugVars, rarVars>>

\* the loops that ask ShouldRetry of the shared policy: two methods of the
\* fault-tolerant accessor and the flush of a handle
SharedLoops == {"Stat", "ReadDir", "copyToDFS"}

\* the exit condition of the loop of m
SharedLoopEnds(m, err, again) ==
  IF m = "copyToDFS" THEN ~CopyRetries(err, again) ELSE LoopEnds(err, again)

\* op := RetryPolicy.StartOperation() on the policy of the mount; flag says
\* the operation began before the handler touched the policy
SharedStart(p, m) ==
  /\ Ready(p)
  /\ pc' = [pc EXCEPT ![p] = "sh_call"]
  /\ loc' = [loc EXCEPT ![p] = [NoLoc EXCEPT !.op = "shared", !.m = m,
                                            !.flag = sigStep < 2]]
  /\ res' = NoLoc
  /\ UNCHANGED <<fsVars, sideVars>>

\* the raw call takes dur ticks and ends with err; ShouldRetry reads the
\* policy as it is now: the loop ends, or the first retry follows at once,
\* or the thread sleeps next_delay inside ShouldRetry
SharedCall(p, err, dur) ==
  LET l == loc[p]
      now == l.elapsed + dur
      again == ShouldRetry(retryPolicy, l.attempt, now)
      delay == NextDelay(retryPolicy, l.attempt)
      called == [l EXCEPT !.elapsed = now]
  IN
  /\ pc[p] = "sh_call"
  /\ now <= MaxElapsed
  /\ IF SharedLoopEnds(l.m, err, again)
     THEN Finish(p, [called EXCEPT !.st = ErrClass(err)])
     ELSE IF delay = 0
     THEN /\ loc' = [loc EXCEPT ![p] = [called EXCEPT !.attempt = @ + 1]]
          /\ UNCHANGED <<pc, res>>
     ELSE /\ loc' = [loc EXCEPT ![p] = [called EXCEPT !.retryAt = now + delay]]
          /\ pc' = [pc EXCEPT ![p] = "sh_sleep"]
          /\ UNCHANGED res
  /\ UNCHANGED <<fsVars, sideVars>>

\* Clock.Sleep is over: ShouldRetry counts the attempt and returns true
SharedWake(p) ==
  /\ pc[p] = "sh_sleep"
  /\ loc' = [loc EXCEPT ![p].attempt = @ + 1, ![p].elapsed = loc[p].retryAt]
  /\ pc' = [pc EXCEPT ![p] = "sh_call"]
  /\ UNCHANGED <<fsVars, sideVars, res>>

\* ================================================================ ugcache
\* UGCacheTime, in ticks of one second
UGCacheTime == 3

\* the user names and ids asked for; the empty name is what a DFS entry
\* without an owner gives
UserNames == {"", "hdfs"}
Uids == 0..1

\* an entry of /etc/passwd: Uid is a string, numeric or not
NoUser == [known |-> FALSE, numeric |-> FALSE, v |-> 0]
HostUid(v) == [known |-> TRUE, numeric |-> TRUE, v |-> v]
OddUid == [known |-> TRUE, numeric |-> FALSE, v |-> 0]
HostEntries == {NoUser, OddUid} \cup {HostUid(v) : v \in Uids}

\* strconv.ParseUint(u.Uid, 10, 32), and (1 << 31) - 1 when it fails
ParsedUid(u) == IF u.numeric THEN u.v ELSE 2147483647

\* a missing map entry
NoUgID == [id |-> 0, expires |-> 0]
NoUgName == [name |-> "", expires |-> 0]

\* a cache whose entries never expire
FreshAlways(expires, now) == TRUE

\* time.Now().Before(cacheEntry.expires)
Fresh(expires, now) == now < expires

\* user.LookupId: the names of the host database with this uid
NamesOfUid(uid) ==
  {n \in UserNames \ {""} : hostUsers[n].known /\ hostUsers[n].numeric
                               /\ hostUsers[n].v = uid}

\* LookupUId, under ugMutex from the first line to the return
LookupUId(p, userName) ==
  LET e == userNameToUidCache[userName]
      u == hostUsers[userName]
      r == [NoLoc EXCEPT !.op = "uid", !.n = userName]
  IN
  /\ Ready(p)
  /\ IF userName = ""
     THEN /\ Finish(p, [r EXCEPT !.st = "empty"])
          /\ UNCHANGED userNameToUidCache
     ELSE IF e # NoUgID /\ Fresh(e.expires, ugNow)
     THEN /\ Finish(p, [r EXCEPT !.st = "hit", !.size = e.id])
          /\ UNCHANGED userNameToUidCache
     ELSE IF u.known
     THEN /\ userNameToUidCache' =
               [userNameToUidCache EXCEPT ![userName] =
                  [id |-> ParsedUid(u), expires |-> ugNow + UGCacheTime]]
          /\ Finish(p, [r EXCEPT !.st = "found", !.flag = TRUE, !.size = ParsedUid(u)])
     ELSE /\ Finish(p, [r EXCEPT !.st = "notfound", !.flag = TRUE])
          /\ UNCHANGED userNameToUidCache
  /\ UNCHANGED <<fsVars, poolVars, sigVars, userIdToNameCache, hostUsers, ugNow, rarVars>>

\* LookupUserName, under ugMutex; name is the user the host database gives
LookupUserName(p, uid, name) ==
  LET e == userIdToNameCache[uid]
      r == [NoLoc EXCEPT !.op = "uname", !.size = uid]
  IN
  /\ Ready(p)
  /\ name \in NamesOfUid(uid) \/ (name = "" /\ NamesOfUid(uid) = {})
  /\ IF e # NoUgName /\ Fresh(e.expires, ugNow)
     THEN /\ Finish(p, [r EXCEPT !.st = "hit", !.n = e.name])
          /\ UNCHANGED userIdToNameCache
     ELSE IF name # ""
     THEN /\ userIdToNameCache' =
               [userIdToNameCache EXCEPT ![uid] =
                  [name |-> name, expires |-> ugNow + UGCacheTime]]
          /\ Finish(p, [r EXCEPT !.st = "found", !.flag = TRUE, !.n = name])
     ELSE /\ Finish(p, [r EXCEPT !.st = "notfound", !.flag = TRUE])
          /\ UNCHANGED userIdToNameCache
  /\ UNCHANGED <<fsVars, poolVars, sigVars, userNameToUidCache, hostUsers, ugNow, rarVars>>

\* a second passes
UGClockTick ==
  /\ ugNow < MaxNow
  /\ ugNow' = ugNow + 1
  /\ UNCHANGED <<fsVars, pc, loc, res, poolVars, sigVars, userNameToUidCache,
                 userIdToNameCache, hostUsers, rarVars>>

\* a user is added to, changed in or removed from the host database
HostUserChanged(n, u) ==
  /\ hostUsers[n] # u
  /\ hostUsers' = [hostUsers EXCEPT ![n] = u]
  /\ UNCHANGED <<fsVars, pc, loc, res, poolVars, sigVars, userNameToUidCache,
                 userIdToNameCache, ugNow, rarVars>>

\* ==================================================== RandomAccessReader
Readers == 1..MaxOpened
Offsets == 0..MaxLen

\* rar.Pool == nil
PoolIsNil == DOMAIN Pool = {}

\* Pool: map[int64]ReadSeekCloser{}
EmptyPool == [o \in Offsets |-> 0]

\* the readers stored in the pool
Pooled == IF PoolIsNil THEN {} ELSE {Pool[o] : o \in Offsets} \ {0}

\* the ReadAt calls that hold the reader
HeldBy(r) == {p \in Procs : pc[p] \in {"rar_seek", "rar_read"} /\ loc[p].h = r}

\* a reader object nothing refers to
UnusedReaders ==
  {r \in Readers : r \notin readerOpen /\ r \notin Pooled /\ HeldBy(r) = {}
                    /\ res.h # r}

\* returnReaderToPool, under PoolLock: the pool after it and the readers
\* closed by it (okPos is false when reader.Position() fails)
PoolAfterReturn(r, key, okPos) ==
  IF PoolIsNil \/ Cardinality(Pooled) >= MaxReaders \/ ~okPos THEN Pool
  ELSE [Pool EXCEPT ![key] = r]

ClosedByReturn(r, key, okPos) ==
  IF PoolIsNil \/ Cardinality(Pooled) >= MaxReaders \/ ~okPos THEN {r}
  ELSE {Pool[key]} \ {0}

\* the deferred function of ReadAt: err is the variable declared in the first
\* line of ReadAt
RarDeferred(p, r, errIsNil, okPos, answer) ==
  /\ IF errIsNil
     THEN /\ Pool' = PoolAfterReturn(r, readerPos'[r], okPos)
          /\ readerOpen' = readerOpen \ ClosedByReturn(r, readerPos'[r], okPos)
     ELSE /\ Pool' = Pool
          /\ readerOpen' = readerOpen \ {r}
  /\ Finish(p, [loc[p] EXCEPT !.st = answer])

\* ReadAt: getReaderFromPoolOrCreateNew. The pool is nil: error; the pool is
\* empty: File.OpenRead(); else the reader at the offset, or any reader
RarGetReader(p, offset, r, okOpen) ==
  /\ Ready(p)
  /\ IF PoolIsNil
     THEN /\ Finish(p, [NoLoc EXCEPT !.op = "rar", !.off = offset, !.st = "closed"])
          /\ r = 1
          /\ UNCHANGED <<Pool, readerOpen, readerPos>>
     ELSE IF Pooled = {}
     THEN /\ UnusedReaders # {} /\ r = LeastOf(UnusedReaders)
          /\ IF okOpen
             THEN /\ readerOpen' = readerOpen \cup {r}
                  /\ readerPos' = [readerPos EXCEPT ![r] = 0]
                  /\ pc' = [pc EXCEPT ![p] = "rar_seek"]
                  /\ loc' = [loc EXCEPT ![p] = [NoLoc EXCEPT !.op = "rar", !.off = offset,
                                                            !.h = r]]
                  /\ res' = NoLoc
             ELSE /\ Finish(p, [NoLoc EXCEPT !.op = "rar", !.off = offset,
                                             !.st = "openerr"])
                  /\ UNCHANGED <<readerOpen, readerPos>>
          /\ UNCHANGED Pool
     ELSE /\ r \in Pooled
          /\ Pool[offset] # 0 => r = Pool[offset]
          /\ okOpen
          /\ Pool' = [o \in Offsets |-> IF Pool[o] = r THEN 0 ELSE Pool[o]]
          /\ pc' = [pc EXCEPT ![p] = "rar_seek"]
          /\ loc' = [loc EXCEPT ![p] = [NoLoc EXCEPT !.op = "rar", !.off = offset, !.h = r]]
          /\ res' = NoLoc
          /\ UNCHANGED <<readerOpen, readerPos>>
  /\ UNCHANGED <<fsVars, poolVars, sigVars, ugVars>>

\* reader.Position(), and reader.Seek(offset) when it differs; the error of
\* Seek is a variable of the if block, err of the function stays nil
RarSeek(p, okPos, okSeek, okPos2) ==
  LET r == loc[p].h IN
  /\ pc[p] = "rar_seek"
  /\ IF ~okPos
     THEN /\ readerPos' = readerPos
          /\ RarDeferred(p, r, FALSE, okPos2, "poserr")
     ELSE IF readerPos[r] # loc[p].off /\ ~okSeek
     THEN /\ readerPos' = readerPos
          /\ RarDeferred(p, r, TRUE, okPos2, "seekerr")
     ELSE /\ readerPos' = [readerPos EXCEPT ![r] = loc[p].off]
          /\ pc' = [pc EXCEPT ![p] = "rar_read"]
          /\ UNCHANGED <<loc, res, Pool, readerOpen>>
  /\ UNCHANGED <<fsVars, poolVars, sigVars, ugVars>>

\* io.ReadFull of a buffer of one byte, then the deferred function
RarReadFull(p, okRead, okPos2) ==
  LET r == loc[p].h
      good == okRead /\ readerPos[r] < MaxLen
      moved == [readerPos EXCEPT ![r] = IF good THEN @ + 1 ELSE @]
  IN
  /\ pc[p] = "rar_read"
  /\ readerPos' = moved
  /\ RarDeferred(p, r, good, okPos2, IF good THEN "ok" ELSE "readerr")
  /\ UNCHANGED <<fsVars, poolVars, sigVars, ugVars>>

\* Close, under PoolLock: every reader of the pool is closed, the pool is nil
RarClose(p) ==
  /\ Ready(p)
  /\ ~PoolIsNil
  /\ readerOpen' = readerOpen \ Pooled
  /\ Pool' = <<>>
  /\ Finish(p, [NoLoc EXCEPT !.op = "rarclose", !.st = "ok"])
  /\ UNCHANGED <<fsVars, poolVars, sigVars, ugVars, readerPos>>

\* ============================================== reclaiming inode objects
Collect(i) ==
  /\ i \in Garbage
  /\ inoKind' = [inoKind EXCEPT ![i] = "free"]
  /\ inoName' = [inoName EXCEPT ![i] = ""]
  /\ inoParent' = [inoParent EXCEPT ![i] = ""]
  /\ attrSize' = [attrSize EXCEPT ![i] = 0]
  /\ attrExpired' = [attrExpired EXCEPT ![i] = FALSE]
  /\ fileProxy' = [fileProxy EXCEPT ![i] = "None"]
  /\ rt' = IF rt.i = i THEN NoRt ELSE rt
  /\ lastRename' = IF lastRename.i = i THEN NoRename ELSE lastRename
  /\ UNCHANGED <<dfsVars, children, reader, staging, stagingPos, handleVars,
                 lockVars, pc, loc, crashed, allowedPrefixes, ftVars, sideVars, res, flushed>>

\* ============================================== FaultTolerantHdfsReader
\* the file the reader was opened on
FtrPath == <<"d1", "a">>
FtrContent == dfs[FtrPath].data

\* NewFaultTolerantHdfsReader: the raw stream just opened, at its start
NewFaultTolerantHdfsReader(pol) ==
  [Impl |-> "open", pos |-> 0, Offset |-> 0, RetryPolicy |-> pol]
NoLog == [base |-> 0, got |-> <<>>]

\* the errors of the raw stream and of OpenRead: none, a retriable one and a
\* non-retriable one
FtrErrors == {Nil, Timeout, Errno("EACCES")}

\* a Read that leaves Offset where it was
ReadOffsetKept(off, nr, err) == off

\* Read: on a successful read the offset moves by the number of bytes read
ReadOffset(off, nr, err) == IF err = Nil THEN off + nr ELSE off

\* Position: the offset the wrapper keeps, the backend is not asked
Position(f) == f.Offset

\* HdfsReader.Seek: the backend refuses a position beyond the end of the file
RawSeekFails(pos, ok) == ~ok \/ pos > Len(FtrContent)

\* ftr.Close(): the raw stream is closed and Impl set to nil
FtrClose(f) == [f EXCEPT !.Impl = "nil", !.pos = 0]

\* op := ftr.RetryPolicy.StartOperation() of a Read of size bytes
FtrRead(p, size) ==
  /\ Ready(p)
  /\ pc' = [pc EXCEPT ![p] = "ftr_loop"]
  /\ loc' = [loc EXCEPT ![p] = [NoLoc EXCEPT !.op = "ftread", !.size = size,
                                            !.pol = ftr.RetryPolicy]]
  /\ res' = NoLoc
  /\ UNCHANGED <<dfsVars, treeVars, attrVars, proxyVars, handleVars, lockVars,
                 crashed, allowedPrefixes, ftVars, sideVars, histVars>>

\* the loop with Impl == nil: OpenRead; its error is retried whenever
\* ShouldRetry grants it and returned otherwise
FtrOpenRead(p, err) ==
  LET l == loc[p]
      again == ShouldRetry(l.pol, l.attempt, l.elapsed)
      called == [l EXCEPT !.m = "OpenRead", !.err = err]
  IN
  /\ pc[p] = "ftr_loop"
  /\ ftr.Impl = "nil"
  /\ IF err = Nil
     THEN /\ ftr' = [ftr EXCEPT !.Impl = "open", !.pos = 0]
          /\ pc' = [pc EXCEPT ![p] = "ftr_seek"]
          /\ loc' = [loc EXCEPT ![p] = called]
          /\ UNCHANGED res
     ELSE IF again
     THEN /\ loc' = [loc EXCEPT ![p] =
                       [called EXCEPT !.attempt = @ + 1,
                                      !.elapsed = @ + NextDelay(l.pol, l.attempt)]]
          /\ UNCHANGED <<pc, res, ftr>>
     ELSE /\ Finish(p, [called EXCEPT !.st = "err"])
          /\ UNCHANGED ftr
  /\ UNCHANGED <<dfsVars, treeVars, attrVars, proxyVars, handleVars, lockVars,
                 crashed, allowedPrefixes, sideVars, ftrLog, histVars>>

\* Impl.Seek(ftr.Offset) on the stream just opened: its failure closes the
\* stream and ends the Read
FtrReopenSeek(p, ok) ==
  LET called == [loc[p] EXCEPT !.m = "Seek"] IN
  /\ pc[p] = "ftr_seek"
  /\ IF RawSeekFails(ftr.Offset, ok)
     THEN /\ ftr' = FtrClose(ftr)
          /\ Finish(p, [called EXCEPT !.st = "err", !.failed = TRUE])
     ELSE /\ ftr' = [ftr EXCEPT !.pos = ftr.Offset]
          /\ pc' = [pc EXCEPT ![p] = "ftr_loop"]
          /\ loc' = [loc EXCEPT ![p] = called]
          /\ UNCHANGED res
  /\ UNCHANGED <<dfsVars, treeVars, attrVars, proxyVars, handleVars, lockVars,
                 crashed, allowedPrefixes, sideVars, ftrLog, histVars>>

\* Impl.Read(buffer): a failing raw read delivers no bytes; a read at the end
\* of the file answers io.EOF, any other one between 1 and len(buffer) bytes.
\* The loop returns on success, on a non-retriable error and when ShouldRetry
\* refuses; otherwise it closes the stream and goes round again
FtrRawRead(p, fault, nr) ==
  LET l == loc[p]
      avail == Len(FtrContent) - ftr.pos
      err == IF fault # Nil THEN fault ELSE IF avail <= 0 THEN EOF ELSE Nil
      data == IF err = Nil THEN SubSeq(FtrContent, ftr.pos + 1, ftr.pos + nr) ELSE <<>>
      again == ShouldRetry(l.pol, l.attempt, l.elapsed)
      called == [l EXCEPT !.m = "Read", !.err = err, !.nstat = @ + 1]
  IN
  /\ pc[p] = "ftr_loop"
  /\ ftr.Impl = "open"
  /\ IF err # Nil \/ l.size = 0 THEN nr = 0 ELSE nr \in 1..Min(l.size, avail)
  /\ IF IsSuccessOrNonRetriableError(err) \/ ~again
     THEN /\ ftr' = [ftr EXCEPT !.pos = @ + nr, !.Offset = ReadOffset(@, nr, err)]
          /\ ftrLog' = [ftrLog EXCEPT !.got = @ \o data]
          /\ Finish(p, [called EXCEPT !.st = IF err = Nil THEN "ok" ELSE "err",
                                      !.data = data, !.off = ftr.Offset])
     ELSE /\ ftr' = FtrClose(ftr)
          /\ loc' = [loc EXCEPT ![p] =
                       [called EXCEPT !.attempt = @ + 1, !.ncloses = @ + 1,
                                      !.elapsed = @ + NextDelay(l.pol, l.attempt)]]
          /\ UNCHANGED <<pc, res, ftrLog>>
  /\ UNCHANGED <<dfsVars, treeVars, attrVars, proxyVars, handleVars, lockVars,
                 crashed, allowedPrefixes, sideVars, histVars>>

\* Seek: passed to the raw stream without retries, Offset follows on success;
\* with Impl == nil (after a Read that closed the stream and could not open
\* it again) the call dereferences nil and the process panics
FtrSeek(p, pos, ok) ==
  /\ Ready(p)
  /\ IF ftr.Impl = "nil"
     THEN /\ crashed' = TRUE
          /\ res' = NoLoc
          /\ UNCHANGED <<ftVars, pc, loc>>
     ELSE IF RawSeekFails(pos, ok)
     THEN /\ Finish(p, [NoLoc EXCEPT !.op = "ftseek", !.off = pos, !.st = "err"])
          /\ UNCHANGED <<ftVars, crashed>>
     ELSE /\ ftr' = [ftr EXCEPT !.pos = pos, !.Offset = pos]
          /\ ftrLog' = [base |-> pos, got |-> <<>>]
          /\ Finish(p, [NoLoc EXCEPT !.op = "ftseek", !.off = pos, !.st = "ok"])
          /\ UNCHANGED crashed
  /\ UNCHANGED <<dfsVars, treeVars, attrVars, proxyVars, handleVars, lockVars,
                 allowedPrefixes, sideVars, histVars>>

\* ====================================================== initial states
\* no file is open and no request is in flight
InitRest ==
  /\ fileProxy = [i \in Inodes |-> "None"]
  /\ reader = [i \in Inodes |-> <<>>]
  /\ staging = [i \in Inodes |-> <<>>]
  /\ stagingPos = [i \in Inodes |-> 0]
  /\ activeHandles = [i \in Inodes |-> <<>>]
  /\ fhFile = [h \in Handles |-> 0]
  /\ totalBytesWritten = [h \in Handles |-> 0]
  /\ kernelHandles = {}
  /\ fileMutex = [i \in Inodes |-> 0]
  /\ fileHandleMutex = [i \in Inodes |-> 0]
  /\ handleMutex = [h \in Handles |-> 0]
  /\ dirMutex = [d \in Dirs |-> 0]
  /\ pc = [p \in Procs |-> "idle"]
  /\ loc = [p \in Procs |-> NoLoc]
  /\ crashed = FALSE
  /\ res = NoLoc
  /\ flushed = [h \in Handles |-> FALSE]
  /\ rt = NoRt
  /\ lastRename = NoRename
  /\ ftr = NewFaultTolerantHdfsReader(MountPolicy)
  /\ ftrLog = NoLog
  /\ hdfsAccessorsIndex = 0
  /\ handedOut = <<>>
  /\ retryPolicy = MountPolicy
  /\ sigStep = 0
  /\ userNameToUidCache = [n \in UserNames |-> NoUgID]
  /\ userIdToNameCache = [u \in Uids |-> NoUgName]
  /\ hostUsers = [n \in UserNames |-> IF n = "hdfs" THEN HostUid(1) ELSE NoUser]
  /\ ugNow = 0
  /\ Pool = EmptyPool
  /\ readerOpen = {}
  /\ readerPos = [r \in Readers |-> 0]

\* a mounted file system whose kernel has looked up the file d1/a
Init ==
  /\ dfs = [x \in Paths |-> IF x = <<"d1", "a">> THEN FileEnt(<<7>>) ELSE NoEnt]
  /\ children = [d \in Dirs |-> [n \in Names |-> IF d = "d1" /\ n = "a" THEN 1 ELSE 0]]
  /\ inoKind = [i \in Inodes |-> IF i = 1 THEN "file" ELSE "free"]
  /\ inoName = [i \in Inodes |-> IF i = 1 THEN "a" ELSE ""]
  /\ inoParent = [i \in Inodes |-> IF i = 1 THEN "d1" ELSE ""]
  /\ attrSize = [i \in Inodes |-> IF i = 1 THEN 1 ELSE 0]
  /\ attrExpired = [i \in Inodes |-> FALSE]
  /\ allowedPrefixes = {Star}
  /\ InitRest

\* two files and a directory in the DFS, no inode cached yet
InitEmptyCache ==
  /\ dfs = [x \in Paths |-> IF x = <<"d1", "a">> THEN FileEnt(<<7>>)
                            ELSE IF x = <<"d1", "b">> THEN FileEnt(<<7, 7>>)
                            ELSE IF x = <<"d2", "a">> THEN DirEnt
                            ELSE NoEnt]
  /\ children = [d \in Dirs |-> [n \in Names |-> 0]]
  /\ inoKind = [i \in Inodes |-> "free"]
  /\ inoName = [i \in Inodes |-> ""]
  /\ inoParent = [i \in Inodes |-> ""]
  /\ attrSize = [i \in Inodes |-> 0]
  /\ attrExpired = [i \in Inodes |-> FALSE]
  /\ InitRest

\* a freshly mounted file system that allows every path
InitMount == InitEmptyCache /\ allowedPrefixes = {Star}

\* a freshly mounted file system with one or two allowed prefixes
InitAllow == InitEmptyCache /\ allowedPrefixes \in PrefixConfigs

\* the buffer of a write that fills the file
FullBuf == [k \in 1..MaxLen |-> k]

\* the renames requested: within d1, and between d1 and d2
RenameReqs == {<<"d1", "a", "d1", "b">>, <<"d1", "b", "d1", "a">>,
               <<"d1", "a", "d2", "b">>, <<"d2", "b", "d1", "a">>}


\* ------------------------------------------------------------------------
\* Spec: concurrent open, read, write, truncate, flush and release on the
\* handles of one file; the disk can be full and a DFS call can fail
Next ==
  \/ \E p \in Procs, i \in Inodes : OpenLock(p, i)
  \/ \E p \in Procs, ok \in BOOLEAN : NewFileHandle(p, ok)
  \/ \E p \in Procs : AddHandle(p)
  \/ \E p \in Procs, h \in Handles : ReadLock(p, h, 0, MaxLen)
  \/ \E p \in Procs : ReadAt(p)
  \/ \E p \in Procs, h \in Handles : WriteLock(p, h, FullBuf, 0)
  \/ \E p \in Procs : upgradeHandleForWriting(p)
  \/ \E p \in Procs : UpgradeLockPeer(p)
  \/ \E p \in Procs : UpgradeCloseReader(p)
  \/ \E p \in Procs, ok \in BOOLEAN : UpgradeStage(p, ok)
  \/ \E p \in Procs : ApplyNil(p)
  \/ \E p \in Procs : ApplyReadOnly(p)
  \/ \E p \in Procs : WriteAt(p)
  \/ \E p \in Procs, i \in Inodes : SetattrLock(p, i, 0)
  \/ \E p \in Procs : TruncateLock(p)
  \/ \E p \in Procs : Truncate(p, TRUE)
  \/ \E p \in Procs, h \in Handles : FlushLock(p, h, "flush")
  \/ \E p \in Procs : FlushRemove(p)
  \/ \E p \in Procs, err \in {Nil, Timeout} : FlushCreate(p, err)
  \/ \E p \in Procs : FlushSeek(p)
  \/ \E p \in Procs, err \in {Nil, Timeout} : FlushCopy(p, err)
  \/ \E p \in Procs, h \in Handles : ReleaseLock(p, h)
  \/ \E p \in Procs : ReleaseLockFile(p)
  \/ \E p \in Procs : RemoveHandle(p)

Spec == Init /\ [][Next]_vars

\* ------------------------------------------------------------------------
\* SpecProxy: concurrent open, write and release on one file; the disk can be
\* full and a DFS call can fail
NextProxy ==
  \/ \E p \in Procs, i \in Inodes : OpenLock(p, i)
  \/ \E p \in Procs, ok \in BOOLEAN : NewFileHandle(p, ok)
  \/ \E p \in Procs : AddHandle(p)
  \/ \E p \in Procs, h \in Handles : WriteLock(p, h, FullBuf, 0)
  \/ \E p \in Procs : upgradeHandleForWriting(p)
  \/ \E p \in Procs : UpgradeLockPeer(p)
  \/ \E p \in Procs : UpgradeCloseReader(p)
  \/ \E p \in Procs, ok \in BOOLEAN : UpgradeStage(p, ok)
  \/ \E p \in Procs : ApplyNil(p)
  \/ \E p \in Procs : ApplyReadOnly(p)
  \/ \E p \in Procs : WriteAt(p)
  \/ \E p \in Procs, h \in Handles : ReleaseLock(p, h)
  \/ \E p \in Procs : ReleaseLockFile(p)
  \/ \E p \in Procs : RemoveHandle(p)

SpecProxy == Init /\ [][NextProxy]_vars

\* ------------------------------------------------------------------------
\* SpecFile: one request at a time, no injected failure: a file is created,
\* opened, read, written, truncated, flushed and released through up to
\* MaxHandles handles
SeqProc == LeastOf(Procs)

NextFile ==
  \/ CreateLock(SeqProc, "d2", "b")
  \/ CreateNewHandle(SeqProc, TRUE)
  \/ CreateChown(SeqProc, TRUE, TRUE)
  \/ \E i \in Inodes : OpenLock(SeqProc, i)
  \/ NewFileHandle(SeqProc, TRUE)
  \/ AddHandle(SeqProc)
  \/ \E h \in Handles : ReadLock(SeqProc, h, 0, MaxLen)
  \/ ReadAt(SeqProc)
  \/ \E h \in Handles : WriteLock(SeqProc, h, FullBuf, 0)
  \/ upgradeHandleForWriting(SeqProc)
  \/ UpgradeLockPeer(SeqProc)
  \/ UpgradeCloseReader(SeqProc)
  \/ UpgradeStage(SeqProc, TRUE)
  \/ WriteAt(SeqProc)
  \/ \E i \in Inodes, size \in {0, MaxLen} : SetattrLock(SeqProc, i, size)
  \/ TruncateLock(SeqProc)
  \/ Truncate(SeqProc, TRUE)
  \/ \E h \in Handles : FlushLock(SeqProc, h, "flush")
  \/ FlushRemove(SeqProc)
  \/ FlushCreate(SeqProc, Nil)
  \/ FlushSeek(SeqProc)
  \/ FlushCopy(SeqProc, Nil)
  \/ \E h \in Handles : ReleaseLock(SeqProc, h)
  \/ ReleaseLockFile(SeqProc)
  \/ RemoveHandle(SeqProc)

SpecFile == InitMount /\ [][NextFile]_vars

\* ------------------------------------------------------------------------
\* SpecTrunc: one client that creates, opens, writes one byte, truncates to
\* the greatest length, reads, flushes and releases
ShortBuf == <<1>>

NextTrunc ==
  \/ CreateLock(SeqProc, "d2", "b")
  \/ CreateNewHandle(SeqProc, TRUE)
  \/ CreateChown(SeqProc, TRUE, TRUE)
  \/ \E i \in Inodes : OpenLock(SeqProc, i)
  \/ NewFileHandle(SeqProc, TRUE)
  \/ AddHandle(SeqProc)
  \/ \E h \in Handles : ReadLock(SeqProc, h, 0, MaxLen)
  \/ ReadAt(SeqProc)
  \/ \E h \in Handles : WriteLock(SeqProc, h, ShortBuf, 0)
  \/ upgradeHandleForWriting(SeqProc)
  \/ UpgradeLockPeer(SeqProc)
  \/ UpgradeCloseReader(SeqProc)
  \/ UpgradeStage(SeqProc, TRUE)
  \/ WriteAt(SeqProc)
  \/ \E i \in Inodes, size \in {MaxLen} : SetattrLock(SeqProc, i, size)
  \/ TruncateLock(SeqProc)
  \/ Truncate(SeqProc, TRUE)
  \/ \E h \in Handles : FlushLock(SeqProc, h, "flush")
  \/ FlushRemove(SeqProc)
  \/ FlushCreate(SeqProc, Nil)
  \/ FlushSeek(SeqProc)
  \/ FlushCopy(SeqProc, Nil)
  \/ \E h \in Handles : ReleaseLock(SeqProc, h)
  \/ ReleaseLockFile(SeqProc)
  \/ RemoveHandle(SeqProc)

SpecTrunc == InitMount /\ [][NextTrunc]_vars

\* ------------------------------------------------------------------------
\* SpecRename: one request at a time, no injected failure: files are looked
\* up and renamed, with and without NO_REPLACE
NextRename ==
  \/ \E d \in Dirs, n \in Names : LookupLock(SeqProc, d, n)
  \/ LookupStat(SeqProc)
  \/ LookupUpdate(SeqProc)
  \/ \E r \in RenameReqs, flags \in {"none", "noreplace", "exchange"} :
        RenameLock(SeqProc, r[1], r[2], r[3], r[4], flags)
  \/ RenameDst(SeqProc)
  \/ RenameDFS(SeqProc, TRUE)
  \/ RenameUnlink(SeqProc)
  \/ RenameAdopt(SeqProc)
  \/ RenameUnlock(SeqProc)
  \/ \E i \in Inodes : Collect(i)

SpecRename == InitMount /\ [][NextRename]_vars

\* ------------------------------------------------------------------------
\* SpecOpen: one request at a time, no injected failure: one file is renamed
\* while a handle is open on it, and written and flushed through the handle
NextOpen ==
  \/ \E d \in Dirs, n \in Names : LookupLock(SeqProc, d, n)
  \/ LookupStat(SeqProc)
  \/ LookupUpdate(SeqProc)
  \/ \E r \in RenameReqs : RenameLock(SeqProc, r[1], r[2], r[3], r[4], "none")
  \/ RenameDst(SeqProc)
  \/ RenameDFS(SeqProc, TRUE)
  \/ RenameUnlink(SeqProc)
  \/ RenameAdopt(SeqProc)
  \/ RenameUnlock(SeqProc)
  \/ \E i \in Inodes : kernelHandles = {} /\ OpenLock(SeqProc, i)
  \/ NewFileHandle(SeqProc, TRUE)
  \/ AddHandle(SeqProc)
  \/ \E h \in Handles : WriteLock(SeqProc, h, FullBuf, 0)
  \/ upgradeHandleForWriting(SeqProc)
  \/ UpgradeCloseReader(SeqProc)
  \/ UpgradeStage(SeqProc, TRUE)
  \/ WriteAt(SeqProc)
  \/ \E h \in Handles : FlushLock(SeqProc, h, "flush")
  \/ FlushRemove(SeqProc)
  \/ FlushCreate(SeqProc, Nil)
  \/ FlushSeek(SeqProc)
  \/ FlushCopy(SeqProc, Nil)
  \/ \E h \in Handles : ReleaseLock(SeqProc, h)
  \/ ReleaseLockFile(SeqProc)
  \/ RemoveHandle(SeqProc)

SpecOpen == Init /\ [][NextOpen]_vars

\* ------------------------------------------------------------------------
\* SpecDir: concurrent lookups and renames in two directories
NextDir ==
  \/ \E p \in Procs, d \in Dirs, n \in Names : LookupLock(p, d, n)
  \/ \E p \in Procs : LookupStat(p)
  \/ \E p \in Procs : LookupUpdate(p)
  \/ \E p \in Procs, r \in RenameReqs : RenameLock(p, r[1], r[2], r[3], r[4], "none")
  \/ \E p \in Procs : RenameDst(p)
  \/ \E p \in Procs : RenameDFS(p, TRUE)
  \/ \E p \in Procs : RenameUnlink(p)
  \/ \E p \in Procs : RenameAdopt(p)
  \/ \E p \in Procs : RenameUnlock(p)
  \/ \E i \in Inodes : Collect(i)

SpecDir == Init /\ [][NextDir]_vars

\* ------------------------------------------------------------------------
\* SpecTree: one client working on the directory tree of a fresh mount:
\* lookup, mkdir and remove, with failing DFS calls
NextTree ==
  \/ \E d \in Dirs, n \in Names : LookupLock(SeqProc, d, n)
  \/ LookupStat(SeqProc)
  \/ LookupUpdate(SeqProc)
  \/ \E d \in Dirs, n \in Names : RemoveLock(SeqProc, d, n)
  \/ \E ok \in BOOLEAN : RemoveDFS(SeqProc, ok)
  \/ \E n \in Names, okUser \in BOOLEAN : MkdirLock(SeqProc, "d2", n, okUser)
  \/ \E ok \in BOOLEAN : MkdirDFS(SeqProc, ok)
  \/ \E ok, okRemove \in BOOLEAN : MkdirChown(SeqProc, ok, okRemove)
  \/ \E i \in Inodes : Collect(i)

SpecTree == InitMount /\ [][NextTree]_vars

\* ------------------------------------------------------------------------
\* SpecAttr: one client looking up names and asking for attributes while time
\* passes and another DFS client changes the file d1/a
NextAttr ==
  \/ \E d \in Dirs, n \in Names : LookupLock(SeqProc, d, n)
  \/ LookupStat(SeqProc)
  \/ LookupUpdate(SeqProc)
  \/ \E i \in Inodes : AttrLock(SeqProc, i)
  \/ AttrStat(SeqProc)
  \/ AttrUpdate(SeqProc)
  \/ \E i \in Inodes : ClockElapsed(i)
  \/ DfsChanged("d1", "a")

SpecAttr == InitMount /\ [][NextAttr]_vars


\* ------------------------------------------------------------------------
\* SpecAllow: one client listing directories and looking up names on a mount
\* that is configured with one or two allowed prefixes
NextAllow ==
  \/ \E d \in Dirs, n \in Names : LookupLock(SeqProc, d, n)
  \/ LookupStat(SeqProc)
  \/ LookupUpdate(SeqProc)
  \/ \E d \in Dirs : ReadDirLock(SeqProc, d)
  \/ \E ok \in BOOLEAN : ReadDirDFS(SeqProc, ok)

SpecAllow == InitAllow /\ [][NextAllow]_vars

\* One request at a time on open handles that write and then flush or fsync,
\* where the DFS create and the DFS writes may fail; FileINode.Fsync runs the
\* same upload for every active handle.
NextFlush ==
  \/ \E i \in Inodes : OpenLock(SeqProc, i)
  \/ NewFileHandle(SeqProc, TRUE)
  \/ AddHandle(SeqProc)
  \/ \E h \in Handles : WriteLock(SeqProc, h, FullBuf, 0)
  \/ upgradeHandleForWriting(SeqProc)
  \/ UpgradeLockPeer(SeqProc)
  \/ UpgradeCloseReader(SeqProc)
  \/ UpgradeStage(SeqProc, TRUE)
  \/ WriteAt(SeqProc)
  \/ \E h \in Handles, op \in {"flush", "fsync"} : FlushLock(SeqProc, h, op)
  \/ FlushRemove(SeqProc)
  \/ \E err \in FlushErrors \cup {Nil} : FlushCreate(SeqProc, err)
  \/ FlushSeek(SeqProc)
  \/ \E err \in FlushErrors \cup {Nil} : FlushCopy(SeqProc, err)
  \/ \E i \in Inodes : FsyncFileLock(SeqProc, i)
  \/ FsyncNext(SeqProc)
  \/ \E h \in Handles : ReleaseLock(SeqProc, h)
  \/ ReleaseLockFile(SeqProc)
  \/ RemoveHandle(SeqProc)

SpecFlush == Init /\ [][NextFlush]_vars

\* Every method of the fault-tolerant accessor under the policies with the
\* shortest delays, against a raw client whose calls succeed or fail.
WrapPolicies == {pol \in RetryPolicies : pol.MinDelay = 1 /\ pol.MaxDelay = 1}

NextWrap ==
  \/ \E pol \in WrapPolicies, m \in FtMethods : StartOperation(SeqProc, pol, m)
  \/ \E err \in SomeErrors, dur \in 0..1 : FtCall(SeqProc, err, dur)

SpecWrap == Init /\ [][NextWrap]_vars

\* Fault-tolerant Stat calls whose raw calls end with nil or with any of the
\* errors, bare or wrapped in a path error.
NextErr ==
  \/ \E pol \in WrapPolicies : StartOperation(SeqProc, pol, "Stat")
  \/ \E err \in RawErrors \cup {Nil} : FtCall(SeqProc, err, 0)

SpecErr == Init /\ [][NextErr]_vars

\* One request at a time: reads at every offset up to the end of the longest
\* file and beyond, through the remote reader and through the staging file
\* (after a write or a truncate of the open file).
NextRead ==
  \/ \E i \in Inodes : OpenLock(SeqProc, i)
  \/ NewFileHandle(SeqProc, TRUE)
  \/ AddHandle(SeqProc)
  \/ \E h \in Handles, off \in 0..(MaxLen + 1), size \in 0..MaxLen :
        ReadLock(SeqProc, h, off, size)
  \/ ReadAt(SeqProc)
  \/ \E h \in Handles : WriteLock(SeqProc, h, ShortBuf, 0)
  \/ upgradeHandleForWriting(SeqProc)
  \/ UpgradeLockPeer(SeqProc)
  \/ UpgradeCloseReader(SeqProc)
  \/ UpgradeStage(SeqProc, TRUE)
  \/ WriteAt(SeqProc)
  \/ \E i \in Inodes : SetattrLock(SeqProc, i, 0)
  \/ TruncateLock(SeqProc)
  \/ Truncate(SeqProc, TRUE)

SpecRead == Init /\ [][NextRead]_vars

\* One request at a time on the file d1/a: open, write, unlink while the handle
\* is open, create of the same name, flush and release.
NextUnlink ==
  \/ \E i \in Inodes : OpenLock(SeqProc, i)
  \/ NewFileHandle(SeqProc, TRUE)
  \/ AddHandle(SeqProc)
  \/ \E h \in Handles : WriteLock(SeqProc, h, FullBuf, 0)
  \/ upgradeHandleForWriting(SeqProc)
  \/ UpgradeLockPeer(SeqProc)
  \/ UpgradeCloseReader(SeqProc)
  \/ UpgradeStage(SeqProc, TRUE)
  \/ WriteAt(SeqProc)
  \/ RemoveLock(SeqProc, "d1", "a")
  \/ RemoveDFS(SeqProc, TRUE)
  \/ CreateLock(SeqProc, "d1", "a")
  \/ CreateNewHandle(SeqProc, TRUE)
  \/ CreateChown(SeqProc, TRUE, TRUE)
  \/ \E h \in Handles : FlushLock(SeqProc, h, "flush")
  \/ FlushRemove(SeqProc)
  \/ FlushCreate(SeqProc, Nil)
  \/ FlushSeek(SeqProc)
  \/ FlushCopy(SeqProc, Nil)
  \/ \E h \in Handles : ReleaseLock(SeqProc, h)
  \/ ReleaseLockFile(SeqProc)
  \/ RemoveHandle(SeqProc)

SpecUnlink == Init /\ [][NextUnlink]_vars

\* One FaultTolerantHdfsReader on a file of MaxLen different bytes: Seek to
\* every position up to one beyond the end, Read of every size, raw calls that
\* succeed or fail with a retriable or a non-retriable error.
InitReader ==
  /\ dfs = [x \in Paths |-> IF x = FtrPath THEN FileEnt(FullBuf) ELSE NoEnt]
  /\ children = [d \in Dirs |-> [n \in Names |-> IF d = "d1" /\ n = "a" THEN 1 ELSE 0]]
  /\ inoKind = [i \in Inodes |-> IF i = 1 THEN "file" ELSE "free"]
  /\ inoName = [i \in Inodes |-> IF i = 1 THEN "a" ELSE ""]
  /\ inoParent = [i \in Inodes |-> IF i = 1 THEN "d1" ELSE ""]
  /\ attrSize = [i \in Inodes |-> IF i = 1 THEN MaxLen ELSE 0]
  /\ attrExpired = [i \in Inodes |-> FALSE]
  /\ allowedPrefixes = {Star}
  /\ InitRest

NextReader ==
  \/ \E size \in 0..MaxLen : FtrRead(SeqProc, size)
  \/ \E err \in FtrErrors : FtrOpenRead(SeqProc, err)
  \/ \E ok \in BOOLEAN : FtrReopenSeek(SeqProc, ok)
  \/ \E err \in FtrErrors, nr \in 0..MaxLen : FtrRawRead(SeqProc, err, nr)
  \/ \E pos \in 0..(MaxLen + 1), ok \in BOOLEAN : FtrSeek(SeqProc, pos, ok)

SpecReader == InitReader /\ [][NextReader]_vars

\* One request at a time on a file of MaxLen different bytes: ReadAt through
\* the RemoteRO proxy at every offset and with every buffer size, the
\* underlying reader delivering the bytes in pieces of any size.
NextSplit ==
  \/ \E i \in Inodes : OpenLock(SeqProc, i)
  \/ NewFileHandle(SeqProc, TRUE)
  \/ AddHandle(SeqProc)
  \/ \E h \in Handles, off \in 0..(MaxLen + 1), size \in 0..(MaxLen + 1) :
        ReadLock(SeqProc, h, off, size)
  \/ ReadSeek(SeqProc)
  \/ \E m \in 0..MaxLen : ReadChunk(SeqProc, m)

SpecSplit == InitReader /\ [][NextSplit]_vars

\* One request at a time in the directory d2: Create of every name, with
\* NewFileHandle, ChownOp and the cleanup Remove succeeding or failing, Remove
\* of every name and Release of the handles.
NextCreate ==
  \/ \E n \in Names : CreateLock(SeqProc, "d2", n)
  \/ \E ok \in BOOLEAN : CreateNewHandle(SeqProc, ok)
  \/ \E ok, okRemove \in BOOLEAN : CreateChown(SeqProc, ok, okRemove)
  \/ \E n \in Names : RemoveLock(SeqProc, "d2", n)
  \/ RemoveDFS(SeqProc, TRUE)
  \/ \E h \in Handles : ReleaseLock(SeqProc, h)
  \/ ReleaseLockFile(SeqProc)
  \/ RemoveHandle(SeqProc)
  \/ \E i \in Inodes : Collect(i)

SpecCreate == InitMount /\ [][NextCreate]_vars

\* One request at a time on a mounted tree: lookup, open, remove, create
\* (which can fail), rename and release, with a Forget of any file inode or
\* directory at any time.
NextForget ==
  \/ \E n \in Names : LookupLock(SeqProc, "d1", n)
  \/ LookupStat(SeqProc)
  \/ LookupUpdate(SeqProc)
  \/ \E i \in Inodes : OpenLock(SeqProc, i)
  \/ NewFileHandle(SeqProc, TRUE)
  \/ AddHandle(SeqProc)
  \/ RemoveLock(SeqProc, "d1", "a")
  \/ \E ok \in BOOLEAN : RemoveDFS(SeqProc, ok)
  \/ CreateLock(SeqProc, "d1", "a")
  \/ \E ok \in BOOLEAN : CreateNewHandle(SeqProc, ok)
  \/ \E ok \in BOOLEAN : CreateChown(SeqProc, ok, TRUE)
  \/ RenameLock(SeqProc, "d1", "b", "d1", "a", "none")
  \/ RenameDst(SeqProc)
  \/ RenameDFS(SeqProc, TRUE)
  \/ RenameUnlink(SeqProc)
  \/ RenameAdopt(SeqProc)
  \/ RenameUnlock(SeqProc)
  \/ \E i \in Inodes : Forget(SeqProc, i)
  \/ \E d \in Dirs : ForgetDir(SeqProc, d)
  \/ \E h \in Handles : ReleaseLock(SeqProc, h)
  \/ ReleaseLockFile(SeqProc)
  \/ RemoveHandle(SeqProc)
  \/ \E i \in Inodes : Collect(i)

SpecForget == InitMount /\ [][NextForget]_vars

\* The request threads call getDFSConnector at the same time.
NextPool ==
  \/ \E p \in Procs : getDFSConnector(p)
  \/ \E p \in Procs : ConnectorStore(p)
  \/ \E p \in Procs : ConnectorReturn(p)

SpecPool == Init /\ [][NextPool]_vars

\* Request threads in the retry loops of the mount while a signal arrives.
NextSignal ==
  \/ \E p \in Procs, m \in SharedLoops : SharedStart(p, m)
  \/ \E p \in Procs, err \in {Nil, Errno("ENOENT"), Timeout, EOF}, dur \in 0..1 :
        SharedCall(p, err, dur)
  \/ \E p \in Procs : SharedWake(p)
  \/ SignalReceived
  \/ SignalResetAttempts
  \/ SignalResetDelay

SpecSignal == Init /\ [][NextSignal]_vars

\* Lookups in the identity cache while time passes and the host database
\* changes.
NextUG ==
  \/ \E n \in UserNames : LookupUId(SeqProc, n)
  \/ \E uid \in Uids, n \in UserNames : LookupUserName(SeqProc, uid, n)
  \/ UGClockTick
  \/ \E n \in UserNames \ {""}, u \in HostEntries : HostUserChanged(n, u)

SpecUG == Init /\ [][NextUG]_vars

\* Request threads in ReadAt and Close of one RandomAccessReader.
NextRar ==
  \/ \E p \in Procs, offset \in Offsets, r \in Readers, okOpen \in BOOLEAN :
        RarGetReader(p, offset, r, okOpen)
  \/ \E p \in Procs, okPos, okSeek, okPos2 \in BOOLEAN : RarSeek(p, okPos, okSeek, okPos2)
  \/ \E p \in Procs, okRead, okPos2 \in BOOLEAN : RarReadFull(p, okRead, okPos2)
  \/ \E p \in Procs : RarClose(p)

SpecRar == Init /\ [][NextRar]_vars

\* One request at a time on the file d1/a: open, write, truncate through
\* Setattr, Attr with fresh and with expired attributes; nothing is flushed.
NextStaged ==
  \/ \E i \in Inodes : OpenLock(SeqProc, i)
  \/ NewFileHandle(SeqProc, TRUE)
  \/ AddHandle(SeqProc)
  \/ \E h \in Handles, b \in {ShortBuf, FullBuf}, off \in 0..1 : WriteLock(SeqProc, h, b, off)
  \/ upgradeHandleForWriting(SeqProc)
  \/ UpgradeLockPeer(SeqProc)
  \/ UpgradeCloseReader(SeqProc)
  \/ UpgradeStage(SeqProc, TRUE)
  \/ WriteAt(SeqProc)
  \/ \E i \in Inodes, size \in 0..MaxLen : SetattrLock(SeqProc, i, size)
  \/ TruncateLock(SeqProc)
  \/ Truncate(SeqProc, TRUE)
  \/ \E i \in Inodes : AttrLock(SeqProc, i)
  \/ AttrStat(SeqProc)
  \/ AttrUpdate(SeqProc)
  \/ \E i \in Inodes : ClockElapsed(i)

SpecStaged == Init /\ [][NextStaged]_vars

\* One request at a time on the file d1/a: open, write, and Setattr with a
\* size while handles are open, where the staging file of the upgrade may not
\* come about and the truncate of the staging file may fail.
NextSetattr ==
  \/ \E i \in Inodes : OpenLock(SeqProc, i)
  \/ NewFileHandle(SeqProc, TRUE)
  \/ AddHandle(SeqProc)
  \/ \E h \in Handles : WriteLock(SeqProc, h, ShortBuf, 0)
  \/ upgradeHandleForWriting(SeqProc)
  \/ UpgradeLockPeer(SeqProc)
  \/ UpgradeCloseReader(SeqProc)
  \/ \E ok \in BOOLEAN : UpgradeStage(SeqProc, ok)
  \/ ApplyNil(SeqProc)
  \/ WriteAt(SeqProc)
  \/ \E i \in Inodes, size \in 0..MaxLen : SetattrLock(SeqProc, i, size)
  \/ TruncateLock(SeqProc)
  \/ \E ok \in BOOLEAN : Truncate(SeqProc, ok)
  \/ \E h \in Handles : ReleaseLock(SeqProc, h)
  \/ ReleaseLockFile(SeqProc)
  \/ RemoveHandle(SeqProc)

SpecSetattr == Init /\ [][NextSetattr]_vars

\* Fault-tolerant Stat calls under every retry policy, against a raw client
\* that may fail with a retriable error every time; a started call is
\* scheduled until it returns.
NextPolicy ==
  \/ \E pol \in RetryPolicies : StartOperation(SeqProc, pol, "Stat")
  \/ \E err \in SomeErrors, dur \in 0..1 : FtCall(SeqProc, err, dur)

SpecPolicy ==
  /\ Init /\ [][NextPolicy]_vars
  /\ WF_vars(\E dur \in 0..1 : FtCall(SeqProc, Timeout, dur))


\* ========================================================================
\* Properties
\* ========================================================================
Quiet == \A p \in Procs : pc[p] = "idle"

\* the path a rename moved the inode from, and the path it moved it to
RenamedFrom == <<lastRename.d, lastRename.n>>
RenamedTo == <<lastRename.d2, lastRename.n2>>

\* C1: between requests, file_proxy is set whenever active_handles is
\* non-empty and is None whenever active_handles is empty, also after calls
\* that failed.  Checked under Spec.
C1_ProxyIffHandles ==
  Quiet => \A i \in Inodes : (activeHandles[i] # <<>>) <=> (fileProxy[i] # "None")

\* C2: the proxy of a FileNode is never changed from LocalRW to RemoteRO (all
\* other changes among None, RemoteRO and LocalRW are the allowed ones), and
\* an open that finds a proxy set leaves it in place and opens no DFS reader.
\* Checked under SpecProxy.
C2_ProxyTransitions ==
  [][\A i \in Inodes :
       /\ ~(fileProxy[i] = "LocalRW" /\ fileProxy'[i] = "RemoteRO")
       /\ \A p \in Procs :
            (pc[p] = "open_new" /\ pc'[p] = "open_add" /\ loc[p].i = i
               /\ fileProxy[i] # "None")
            => (fileProxy'[i] = fileProxy[i] /\ reader'[i] = reader[i]
                  /\ ~loc'[p].flag)]_vars

\* an open has shared the LocalRW proxy another handle had put in place
C2_Witness ==
  /\ res.op = "open" /\ res.st = "ok" /\ ~res.flag
  /\ fileProxy[res.i] = "LocalRW"
  /\ Len(activeHandles[res.i]) >= 2

\* C3: after a successful rename the source directory has no entry under the
\* old name and the target directory's entry under the new name is the very
\* inode that was renamed, with the new name and the new parent, also while
\* lookups run in either directory.  Checked under SpecDir.
C3_RenamedInodeInPlace ==
  lastRename.i # 0 =>
    /\ children[lastRename.d][lastRename.n] = 0
    /\ children[lastRename.d2][lastRename.n2] = lastRename.i
    /\ inoName[lastRename.i] = lastRename.n2
    /\ inoParent[lastRename.i] = lastRename.d2

\* C4: buf written at offset 0 to a newly created file, flushed, released; the
\* file opened again: a read of len(buf) bytes at offset 0 returns buf, and
\* from the flush on the size attribute and the DFS file are, between
\* requests, those of buf.  Checked under SpecFile.
C4_RoundTrip ==
  /\ (res.op = "read" /\ res.ph = 5 /\ res.off = 0 /\ res.size = Len(rt.buf))
       => (res.st = "ok" /\ res.data = rt.buf)
  /\ (Quiet /\ rt.ph >= 3) =>
       /\ attrSize[rt.i] = Len(rt.buf)
       /\ dfs[AbsolutePath(rt.i)] = FileEnt(rt.buf)

\* the read after the reopen has returned the buffer
C4_Witness ==
  /\ res.op = "read" /\ res.ph = 5 /\ res.st = "ok"
  /\ rt.ph = 5 /\ Len(rt.buf) = MaxLen /\ res.data = rt.buf
  /\ attrSize[rt.i] = MaxLen

\* C5: a flush of a handle that was flushed before, with no write or truncate
\* of the file in between, makes no DFS call (it is in none of the upload
\* steps).  Checked under SpecFile.
C5_SecondFlushNoCall ==
  \A p \in Procs :
    pc[p] \in {"fl_remove", "fl_create", "fl_seek", "fl_copy"} => ~loc[p].flag

\* the content of the staging file of inode i differs from the DFS file
StagingDiffers(i) ==
  /\ fileProxy[i] = "LocalRW"
  /\ dfs[AbsolutePath(i)] # FileEnt(staging[i])

\* C6: between requests, the bytes_written of a handle is greater than 0 if
\* and only if the staging content of its FileNode differs from the DFS file.
\* Checked under SpecFile.
C6_WrittenIffDiffers ==
  Quiet => \A h \in kernelHandles :
             (totalBytesWritten[h] > 0) <=> StagingDiffers(fhFile[h])

\* thread a is in Read, waits for the fileHandleMutex that thread b holds in
\* upgradeHandleForWriting, and b waits for the lock of the handle a reads
ReadBlocked(a, b) ==
  LET i == loc[a].i
      k == NextPeer(i, loc[b].h, loc[b].k)
  IN
  /\ pc[a] = "read_at" /\ pc[b] = "upg_peers" /\ loc[b].i = i
  /\ fileProxy[i] # "None" /\ fileHandleMutex[i] = b
  /\ handleMutex[loc[a].h] = a
  /\ k <= Len(activeHandles[i]) /\ activeHandles[i][k] = loc[a].h

\* C7: a read through a handle of a file that another thread opens, writes and
\* flushes returns: the reader never waits for the writer while the writer
\* waits for the reader.  Checked under Spec.
C7_ReadReturns == \A a, b \in Procs : ~ReadBlocked(a, b)

\* C8: a file renamed while a handle is open: the old path is not re-created;
\* once that handle has written and flushed, the upload is at the new path
\* between requests; and an open of the renamed inode succeeds.
\* Checked under SpecOpen.
C8_HandleFollowsRename ==
  lastRename.i # 0 =>
    /\ dfs[RenamedFrom].kind = "none"
    /\ (Quiet /\ lastRename.fl) =>
         /\ dfs[RenamedTo] = FileEnt(FullBuf)
         /\ children[lastRename.d2][lastRename.n2] = lastRename.i
    /\ (res.op = "open" /\ res.i = lastRename.i) => res.st = "ok"

\* a handle opened before the rename has written and flushed after it
C8_Witness ==
  /\ lastRename.i # 0 /\ lastRename.w /\ lastRename.fl
  /\ lastRename.hs # {}
  /\ dfs[RenamedTo] = FileEnt(FullBuf)
  /\ dfs[<<"d1", "a">>].kind = "none"

\* C9: a rename without NO_REPLACE of an existing file succeeds, also onto an
\* existing target, which it replaces; afterwards a lookup of the old name
\* answers ENOENT and a lookup of the new name answers the renamed inode with
\* the size the file had; this also holds of the rename back.
\* Checked under SpecRename.
C9_RenameReplaces ==
  /\ (res.op = "rename" /\ res.rflags = "none" /\ res.pre.esrc.kind # "none")
       => /\ res.st = "ok"
          /\ dfs[<<res.d2, res.n2>>] = res.pre.esrc
          /\ dfs[<<res.d, res.n>>] = NoEnt
  /\ (res.op = "lookup" /\ lastRename.i # 0 /\ <<res.d, res.n>> = RenamedFrom)
       => res.st = "ENOENT"
  /\ (res.op = "lookup" /\ lastRename.i # 0 /\ <<res.d, res.n>> = RenamedTo)
       => (res.st = "ok" /\ res.i = lastRename.i /\ res.size = lastRename.size)

\* after a rename onto an existing file the old name has been looked up
C9_Witness ==
  /\ lastRename.i # 0 /\ lastRename.rep
  /\ res.op = "lookup" /\ <<res.d, res.n>> = RenamedFrom /\ res.st = "ENOENT"
  /\ dfs[RenamedTo].kind = "file"

\* C10: a rename with NO_REPLACE of an existing file onto an existing target
\* answers EEXIST; both DFS entries are as before, and the inodes of the two
\* names are where they were, with their name and parent.
\* Checked under SpecRename.
C10_NoReplaceKeeps ==
  (res.op = "rename" /\ res.rflags = "noreplace"
     /\ res.pre.esrc.kind # "none" /\ res.pre.edst.kind # "none")
  => /\ res.st = "EEXIST"
     /\ dfs[<<res.d, res.n>>] = res.pre.esrc
     /\ dfs[<<res.d2, res.n2>>] = res.pre.edst
     /\ \A x \in {<<res.d, res.n, res.pre.src>>, <<res.d2, res.n2, res.pre.dst>>} :
          LET c == children[x[1]][x[2]] IN
          /\ c # 0
          /\ x[3] # 0 => c = x[3]
          /\ inoName[c] = x[2]
          /\ inoParent[c] = x[1]

\* a rename with NO_REPLACE onto an existing file has been refused
C10_Witness ==
  /\ res.op = "rename" /\ res.rflags = "noreplace" /\ res.st = "EEXIST"
  /\ res.pre.esrc.kind = "file" /\ res.pre.edst.kind = "file"
  /\ res.pre.src # 0


\* C11: when the DFS Remove succeeds the directory has no child under the
\* name any more; when it fails the error is returned and the children map
\* and the DFS entry are as before the call.  Checked under SpecTree.
C11_RemoveDropsChild ==
  res.op = "remove" =>
    /\ res.pre.esrc.kind = "none" => res.st # "ok"
    /\ res.st = "ok" => /\ children[res.d][res.n] = 0
                        /\ dfs[<<res.d, res.n>>] = NoEnt
    /\ res.st # "ok" => /\ children[res.d][res.n] = res.pre.src
                        /\ dfs[<<res.d, res.n>>] = res.pre.esrc

C11_Witness ==
  /\ res.op = "remove" /\ res.st = "ok" /\ res.pre.src # 0
  /\ children[res.d][res.n] = 0

\* C12: a Mkdir whose DFS mkdir succeeded and whose chown failed has returned
\* the chown error, the directory is gone from the DFS again and the parent
\* has no child under the name.  Checked under SpecTree.
C12_MkdirChownUndone ==
  (res.op = "mkdir" /\ res.flag /\ res.st # "ok") =>
    /\ res.st = "ECHOWN"
    /\ dfs[<<res.d, res.n>>] = NoEnt
    /\ children[res.d][res.n] = 0

\* C13: an Attr on an inode whose file is not staged locally answers from the
\* cache without a DFS Stat while the attributes have not expired, leaving
\* them as they are; once they have expired it issues exactly one Stat, and
\* on success returns and caches the answer and the attributes are fresh
\* again.  Checked under SpecAttr.
C13_AttrCache ==
  [][(res' # res /\ res'.op = "attr" /\ res'.opt # "LocalRW") =>
       IF res'.flag
       THEN /\ res'.nstat = 1
            /\ \A p \in Procs :
                 (pc[p] = "at_upd" /\ pc'[p] = "idle" /\ res'.st = "ok") =>
                   /\ res'.size = Len(loc[p].ent.data)
                   /\ attrSize'[res'.i] = Len(loc[p].ent.data)
                   /\ ~attrExpired'[res'.i]
       ELSE /\ res'.nstat = 0
            /\ res'.st = "ok"
            /\ res'.size = attrSize[res'.i]
            /\ UNCHANGED attrVars]_vars

C13_Witness ==
  /\ res.op = "attr" /\ res.opt # "LocalRW" /\ res.flag /\ res.nstat = 1
  /\ res.st = "ok" /\ res.size # res.cached /\ ~attrExpired[res.i]

\* C14: a Lookup of a name the directory has cached returns that inode and
\* issues no DFS Stat, expired attributes or not; a Lookup of a name it has
\* not cached issues one Stat, and then a path missing in the DFS gives
\* ENOENT and no child, any other the new child.  Checked under SpecAttr.
C14_LookupCached ==
  res.op = "lookup" =>
    /\ res.pre.src # 0 => /\ res.st = "ok"
                          /\ res.i = res.pre.src
                          /\ res.nstat = 0
    /\ res.pre.src = 0 =>
         /\ res.nstat = 1
         /\ res.pre.esrc.kind = "none" => /\ res.st = "ENOENT"
                                         /\ children[res.d][res.n] = 0
         /\ res.pre.esrc.kind # "none" => /\ res.st = "ok"
                                         /\ res.i # 0
                                         /\ children[res.d][res.n] = res.i

C14_Witness ==
  /\ res.op = "lookup" /\ res.st = "ok" /\ res.pre.src # 0 /\ res.nstat = 0
  /\ attrExpired[res.i]


\* the filter as the specification words it, for the path of a child (which
\* is never the root): some prefix q is "*", or "/" + q is the path, or the
\* path starts with "/" + q + "/"
AllowedPath(d, n) ==
  LET path == AbsolutePathForChild(d, n) IN
  \E q \in allowedPrefixes :
    \/ q = Star
    \/ /\ Len(path) = Len(q) + 1
       /\ \A k \in 1..Len(path) : path[k] = IF k = 1 THEN "/" ELSE q[k - 1]
    \/ /\ Len(path) >= Len(q) + 2
       /\ \A k \in 1..(Len(q) + 2) :
            path[k] = IF k = 1 \/ k = Len(q) + 2 THEN "/" ELSE q[k - 1]

\* C15: ReadDirAll returns the DFS entries of the directory whose path is
\* allowed, in DFS order, and only allowed names are ever children; a Lookup
\* of a name that is not allowed returns ENOENT without a DFS Stat; a prefix
\* that is only the beginning of a name (d for d1) allows nothing below it.
\* Checked under SpecAllow.
C15_AllowedOnly ==
  /\ \A d \in Dirs, n \in Names : children[d][n] # 0 => AllowedPath(d, n)
  /\ (res.op = "readdir" /\ res.st = "ok") =>
       /\ res.data = SelectSeq(DfsReadDir(dfs, res.d), LAMBDA n : AllowedPath(res.d, n))
       /\ \A n \in SeqRange(res.data) : children[res.d][n] # 0
  /\ (res.op = "lookup" /\ ~AllowedPath(res.d, res.n)) =>
       /\ res.st = "ENOENT"
       /\ res.nstat = 0
  /\ allowedPrefixes = {<<"d">>} => \A d \in Dirs, n \in Names : children[d][n] = 0

C15_Witness ==
  /\ res.op = "readdir" /\ res.st = "ok" /\ res.d = "d1"
  /\ res.data = <<"a">> /\ dfs[<<"d1", "b">>].kind = "file"
  /\ children["d1"]["a"] # 0 /\ children["d1"]["b"] = 0


\* C16: after a truncate of an open file to a greater length, a flush, the
\* release and a new open, a read of the whole file returns the requested
\* number of bytes, the old content first and zero bytes beyond the old size,
\* and once the flush is done the size attribute is the requested length.
\* Checked under SpecTrunc.
C16_TruncateExtends ==
  /\ (res.op = "read" /\ res.ph = 5 /\ rt.tr /\ res.off = 0 /\ res.size >= Len(rt.buf)) =>
       /\ res.st = "ok"
       /\ Len(res.data) = Len(rt.buf)
       /\ \A k \in 1..Len(res.data) :
            res.data[k] = IF k <= rt.old THEN rt.buf[k] ELSE 0
  /\ (Quiet /\ rt.tr /\ rt.ph >= 3) =>
       /\ attrSize[rt.i] = Len(rt.buf)
       /\ Len(dfs[AbsolutePath(rt.i)].data) = Len(rt.buf)

C16_Witness ==
  /\ res.op = "read" /\ res.ph = 5 /\ res.st = "ok" /\ rt.tr /\ rt.ph = 5
  /\ rt.old = 1 /\ Len(res.data) = MaxLen /\ res.data[1] = 1 /\ res.data[MaxLen] = 0

\* C17: when copyToDFS fails, the Flush or Fsync that ran it answers with that
\* error and never with success; FileINode.Fsync answers with an error when
\* the Fsync of one of its active handles failed; and after the failure the
\* staging file still holds what was written and the handle still counts as
\* changed, so that a flush repeated after a failed one uploads the staged
\* content. Release does not run copyToDFS. Checked under SpecFlush.
C17_FlushErrorKept ==
  /\ (res.op \in {"flush", "fsync", "fsyncfile"} /\ res.failed) => res.st = "err"
  /\ (res.op \in {"flush", "fsync"} /\ res.failed) =>
        /\ fileProxy[res.i] = "LocalRW"
        /\ staging[res.i] = FullBuf
        /\ totalBytesWritten[res.h] > 0
  /\ (res.op \in {"flush", "fsync"} /\ res.retry /\ res.st = "ok") =>
        dfs[AbsolutePath(res.i)] = FileEnt(FullBuf)
  /\ res.op = "release" => ~res.failed /\ res.k = 0

\* a flush repeated after a failed one has uploaded the staged content
C17_Witness ==
  /\ res.op = "flush" /\ res.retry /\ res.st = "ok"
  /\ dfs[AbsolutePath(res.i)] = FileEnt(FullBuf)

\* C18: in every operation run under a RetryPolicy the retries granted never
\* exceed MaxAttempts (so the raw client is called at most MaxAttempts + 1
\* times), the last retry starts no later than TimeLimit + MaxDelay after
\* StartOperation, and the fault-tolerant call returns even when the raw
\* client fails with a retriable error every time. Checked under SpecPolicy.
C18_RetryBounded ==
  /\ [](\A p \in Procs :
          /\ loc[p].attempt <= loc[p].pol.MaxAttempts
          /\ loc[p].nstat <= loc[p].pol.MaxAttempts + 1
          /\ loc[p].retryAt <= loc[p].pol.TimeLimit + loc[p].pol.MaxDelay)
  /\ \A p \in Procs : (pc[p] = "ft_call") ~> (pc[p] = "idle")

\* a call has returned the retriable error after using up all its retries
C18_Witness ==
  /\ res.op = "ft" /\ res.m = "Stat" /\ res.st = "retriable"
  /\ res.pol.MaxAttempts = MaxTries /\ res.attempt = MaxTries
  /\ res.retryAt > 0

\* C19: FileHandle.Read never answers the kernel with EOF: when the proxy
\* reports EOF the read succeeds with the bytes obtained, possibly none; and
\* RemoteRO ReadAt reports no EOF when it obtained at least one byte. Checked
\* under SpecRead.
C19_ReadNoEOF ==
  res.op = "read" =>
    /\ res.st # "EOF"
    /\ res.opt = "EOF" => res.st = "ok" /\ Len(res.data) < res.size
    /\ (~res.flag /\ Len(res.data) > 0) => res.opt = "ok"

\* a read at the end of the file through the remote reader got EOF from the
\* proxy and no byte
C19_Witness ==
  /\ res.op = "read" /\ ~res.flag /\ res.opt = "EOF"
  /\ res.st = "ok" /\ res.data = <<>> /\ res.size > 0

\* C20: on every FileINode the locks are taken in the order fileMutex,
\* fileHandleMutex, FileHandle.mutex: no thread takes a fileMutex or a
\* fileHandleMutex while it holds the mutex of a handle, and none takes a
\* fileMutex while it holds a fileHandleMutex. Checked under Spec.
C20_LockOrder ==
  [][\A p \in Procs :
       /\ (\E i \in Inodes : fileMutex[i] # p /\ fileMutex'[i] = p) =>
            /\ \A h \in Handles : handleMutex[h] # p
            /\ \A i \in Inodes : fileHandleMutex[i] # p
       /\ (\E i \in Inodes : fileHandleMutex[i] # p /\ fileHandleMutex'[i] = p) =>
            \A h \in Handles : handleMutex[h] # p]_vars

\* the steps by which a started request of thread p goes on
Continue(p) ==
  \/ \E ok \in BOOLEAN : NewFileHandle(p, ok)
  \/ AddHandle(p)
  \/ ReadAt(p)
  \/ upgradeHandleForWriting(p)
  \/ UpgradeLockPeer(p)
  \/ UpgradeCloseReader(p)
  \/ \E ok \in BOOLEAN : UpgradeStage(p, ok)
  \/ ApplyNil(p)
  \/ ApplyReadOnly(p)
  \/ WriteAt(p)
  \/ TruncateLock(p)
  \/ Truncate(p, TRUE)
  \/ FlushRemove(p)
  \/ \E err \in {Nil, Timeout} : FlushCreate(p, err)
  \/ FlushSeek(p)
  \/ \E err \in {Nil, Timeout} : FlushCopy(p, err)
  \/ ReleaseLockFile(p)
  \/ RemoveHandle(p)

\* C21: no interleaving of operations on one FileINode reaches a state where
\* every thread that has started a request waits for a lock another such
\* thread holds: while the process runs, some started request can go on.
\* Checked under Spec.
C21_NoDeadlock ==
  (~crashed /\ \E p \in Procs : Busy(p)) =>
     \E p \in Procs : Busy(p) /\ ENABLED Continue(p)

\* the upgrade of thread p has closed the reader and not yet installed the
\* staging file
Switching(p) == pc[p] = "upg_stage"

\* thread p holds the mutex of every handle of its file but its own
PeersLocked(p) ==
  \A k \in 1..Len(activeHandles[loc[p].i]) :
     LET h == activeHandles[loc[p].i][k] IN h # loc[p].h => handleMutex[h] = p

\* thread p is in a handle operation at its call of the proxy
AtProxyCall(p) ==
  /\ pc[p] \in {"read_at", "apply", "fl_seek", "fl_copy"}
  /\ loc[p].h # 0 /\ handleMutex[loc[p].h] = p

\* C22: while upgradeHandleForWriting replaces RemoteRO by LocalRW it holds
\* the mutex of every other open handle of the FileINode, and no handle
\* operation ever comes to its call of the proxy while the FileINode has no
\* proxy (the remote reader closed and nothing installed). Checked under Spec.
C22_UpgradeAtomic ==
  \A p \in Procs :
     /\ Switching(p) => PeersLocked(p)
     /\ AtProxyCall(p) => fileProxy[loc[p].i] # "None"

\* C23: a write or truncate whose upgradeHandleForWriting failed answers with
\* an error, after no call through a missing proxy (no panic), and the
\* FileINode still has a proxy while it has active handles. Checked under
\* Spec.
C23_UpgradeFailure ==
  (res.op \in {"write", "setattr"} /\ res.st # "ok") =>
     /\ res.st = "err"
     /\ activeHandles[res.i] # <<>> => fileProxy[res.i] # "None"

\* thread p is inside a structural operation that reads or changes the
\* children of directory d: an operation on d, or a rename into d
InDir(p, d) ==
  /\ Busy(p)
  /\ loc[p].op \in {"lookup", "readdir", "mkdir", "create", "remove", "rename"}
  /\ loc[p].d = d \/ (loc[p].op = "rename" /\ loc[p].d2 = d)

\* C24: no two structural operations on the children of one directory
\* (lookup, readdir, mkdir, create, remove, rename out of it, rename into it
\* from another directory) are in progress at the same time. Checked under
\* SpecDir.
C24_DirSerialized ==
  \A d \in Dirs : \A p, q \in Procs : (InDir(p, d) /\ InDir(q, d)) => p = q

\* the answer of a call of the accessor that went through the retry loop as
\* the loop is described: one raw call more than retries granted, a close of
\* the connection before each retry when closing is set, and a retriable
\* error returned only when ShouldRetry refused
LoopAnswer(r, closing) ==
  /\ r.nstat = r.attempt + 1
  /\ r.ncloses = IF closing THEN r.attempt ELSE 0
  /\ r.st = "retriable" => ~ShouldRetry(r.pol, r.attempt, r.elapsed)

Listed(err) ==
  LET e == [err EXCEPT !.w = FALSE] IN
  \/ e \in {Errno(c) : c \in {"EEXIST", "ENOENT", "EACCES", "ENOTEMPTY", "EROFS",
                               "EDQUOT", "ENOLINK"}}
  \/ e = EOF
  \/ e \in {OsErr(c) : c \in {"ErrNotExist", "ErrPermission", "ErrExist", "ErrClosed"}}

\* C26: the wrapper never retries a listed error (a call in its loop after a
\* raw call has not got one from it), and every other error is retried as
\* long as ShouldRetry grants it. Checked under SpecErr.
C26_ListedNotRetried ==
  /\ \A p \in Procs :
       (pc[p] = "ft_call" /\ loc[p].nstat > 0) => ~Listed(loc[p].err)
  /\ (res.op = "ft" /\ res.err # Nil /\ ~Listed(res.err)) =>
       ~ShouldRetry(res.pol, res.attempt, res.elapsed)

\* C27: a Flush or Fsync whose attempt failed with a retriable error has
\* returned that error only when the retry policy refused another attempt:
\* otherwise copyToDFS repeats the attempt. Checked under SpecFlush.
C27_FlushRetried ==
  (res.op \in {"flush", "fsync"} /\ res.failed /\ ErrClass(res.err) = "retriable") =>
     ~ShouldRetry(res.pol, res.attempt, 0)

\* C28: when a Flush or Fsync has returned an error, the DFS path of the file
\* holds a complete copy of what it held before or of the staged content, that
\* is the content d1/a had at mount time or the content of the staging file
\* (all that an earlier flush can have put there): it is not left absent,
\* empty or partly written. Checked under SpecFlush.
C28_FlushKeepsCopy ==
  (res.op \in {"flush", "fsync"} /\ res.failed /\ res.st = "err") =>
     LET e == dfs[AbsolutePath(res.i)] IN
     e = FileEnt(<<7>>) \/ (e.kind = "file" /\ e.data = staging[res.i])

\* the file nodes that Remove took out of their directory while handles on
\* them were open
Unlinked == {i \in Inodes : inoKind[i] = "file" /\ activeHandles[i] # <<>> /\ ~InTree(i)}

\* C29: once Remove has succeeded for a file with open handles, no request
\* through those handles brings its path back to the DFS: between requests the
\* path is absent as long as no file was created under the name, and a file
\* created there afterwards and not yet written holds its own empty content.
\* Checked under SpecUnlink.
C29_UnlinkedStaysGone ==
  \A i \in Unlinked :
     LET j == children[inoParent[i]][inoName[i]]
         e == dfs[AbsolutePath(i)]
     IN
     Quiet =>
        /\ j = 0 => e.kind = "none"
        /\ (j # 0 /\ \A h \in Handles : fhFile[h] = j => totalBytesWritten[h] = 0) =>
              e = FileEnt(<<>>)

C31_ReadAtAsReference ==
  (res.op = "read" /\ res.off < Len(FtrContent)) =>
     /\ res.data = Slice(FtrContent, res.off, res.size)
     /\ Len(res.data) = Min(res.size, Len(FtrContent) - res.off)
     /\ res.opt = "ok" /\ res.st = "ok"

\* a ReadAt that got its bytes in more than one piece (k counts the raw
\* reads) and then met the end of the file has returned
C31_Witness ==
  /\ res.op = "read" /\ res.off < Len(FtrContent)
  /\ Len(res.data) > 1 /\ Len(res.data) < res.size /\ res.k > 2

\* C32: when ChownOp has failed in Create, Create has returned the error, the
\* empty DFS file made for the new name is gone again and the directory has no
\* child of that name. Checked under SpecCreate.
C32_CreateChownUndone ==
  (res.op = "create" /\ res.st = "err" /\ res.h # 0) =>
     /\ dfs[<<res.d, res.n>>] = NoEnt
     /\ children[res.d][res.n] = 0

\* C33: an Attr of a file whose proxy is LocalRW succeeds with the length of
\* the staging file as it is after the writes and truncates done so far, makes
\* that the cached size, and has issued no DFS Stat, expired attributes or
\* not. Checked under SpecStaged.
C33_AttrFromStaging ==
  (res.op = "attr" /\ res.opt = "LocalRW") =>
     /\ res.st = "ok" /\ res.nstat = 0
     /\ res.size = Len(staging[res.i])
     /\ attrSize[res.i] = Len(staging[res.i])

\* an Attr with expired attributes of a file written and not flushed: the
\* size returned is neither the size cached before nor the one in the DFS
C33_Witness ==
  /\ res.op = "attr" /\ res.opt = "LocalRW" /\ res.flag
  /\ res.size # res.cached
  /\ res.size # Len(dfs[AbsolutePath(res.i)].data)

\* C34: a Setattr with a size on a file that has open handles has truncated
\* through every handle: when it returns success the staging file has the
\* requested length, the cached size is the requested size and the proxy is
\* LocalRW; otherwise a truncate of a handle failed and Setattr has returned
\* its error. Checked under SpecSetattr.
C34_SetattrTruncates ==
  (res.op = "setattr" /\ res.h # 0) =>
     IF res.st = "ok"
     THEN /\ Len(staging[res.i]) = res.size
          /\ attrSize[res.i] = res.size
          /\ fileProxy[res.i] = "LocalRW"
     ELSE res.st = "err"

\* the size an Attr of the file would report now
ReportedSize(i) ==
  IF fileProxy[i] = "LocalRW" THEN Len(staging[i])
  ELSE IF attrExpired[i] THEN Len(dfs[AbsolutePath(i)].data)
  ELSE attrSize[i]

\* C35: after a Setattr with a size that returned success the size the file
\* reports is the requested size, with handles open on the file or without.
\* Checked under SpecStaged.
C35_SetattrSizeKept ==
  (res.op = "setattr" /\ res.st = "ok") => ReportedSize(res.i) = res.size

\* the steps of the handlers that drop a child: Remove, the two steps of
\* Rename, Create giving up, and Lookup or Attr after a failed stat
DroppingSteps == {"rm_dfs", "rn_unlink", "rn_adopt", "cr_new", "cr_chown",
                  "lk_upd", "at_upd"}

\* C36: a Forget of a file inode or of a directory leaves every children map
\* as it was, and an inode leaves a children map only in a step of Remove,
\* of Rename, of a Create that gives up, or of a Lookup or Attr whose stat
\* of the name failed. Checked under SpecForget.
C36_ForgetKeepsChildren ==
  [][ /\ (res'.op = "forget" /\ pc = pc') => children' = children
      /\ \A d \in Dirs, n \in Names :
           (children[d][n] # 0 /\ children'[d][n] # children[d][n]) =>
              pc[SeqProc] \in DroppingSteps ]_vars

\* a Forget of the inode that was removed has been answered while the name
\* holds the inode created after the removal
C36_Witness ==
  /\ res.op = "forget" /\ res.i # 0 /\ ~res.flag
  /\ inoKind[res.i] = "file" /\ ~InTree(res.i)
  /\ children[inoParent[res.i]][inoName[res.i]] \notin {0, res.i}

\* C37: the connectors are handed out round-robin: the latest Connectors
\* calls of getDFSConnector, in the order they returned, got Connectors
\* different connectors, and every index is one of 0..Connectors-1, with the
\* calls issued by several request threads at a time. Checked under SpecPool.
C37_RoundRobin ==
  /\ \A k \in 1..Len(handedOut) : handedOut[k] \in ConnectorSlots
  /\ \A k, l \in 1..Len(handedOut) : k # l => handedOut[k] # handedOut[l]

\* C38 as stated: once the handler has set max_attempts and max_delay to 0
\* no loop starts another turn.
C38_NoRetryAfterSignal ==
  [][ sigStep = 3 =>
        \A p \in Procs : pc[p] \in {"sh_call", "sh_sleep"} =>
            (pc'[p] = "sh_call" => loc'[p] = loc[p]) ]_vars

\* C38: once the handler has set max_attempts to 0 every ShouldRetry that is
\* asked answers false: a raw call that ends from then on is the last one of
\* its operation, for the operations in flight and for the new ones; only a
\* thread that was asleep inside ShouldRetry makes one more raw call.
\* Checked under SpecSignal.
C38_RawCallIsLast ==
  [][ sigStep >= 2 =>
        \A p \in Procs :
           (pc[p] = "sh_call" /\ (pc'[p] # "sh_call" \/ loc'[p] # loc[p])) =>
              pc'[p] = "idle" ]_vars

\* an operation that began before the handler ran has ended with a retriable
\* error although it had attempts and time left
C38_Witness ==
  /\ sigStep >= 2
  /\ res.op = "shared" /\ res.flag /\ res.st = "retriable"
  /\ res.attempt < MountPolicy.MaxAttempts
  /\ res.elapsed + NextDelay(MountPolicy, res.attempt) <= MountPolicy.TimeLimit

\* the step is a lookup: neither the clock nor the host database moves
UGLookupStep(op) ==
  res'.op = op /\ ugNow' = ugNow /\ hostUsers' = hostUsers

\* C39: a lookup of a name or id whose cache entry has not reached its expiry
\* is answered with the cached value and the host database is not asked; a
\* lookup that asks it and finds the key stores the value with the expiry
\* UGCacheTime from now; a lookup that asks it and does not find the key
\* answers 0 or the empty name and stores nothing, so the next lookup of the
\* key asks the host database again. Checked under SpecUG.
C39_CacheBeforeHost ==
  [][ /\ \A n \in UserNames \ {""} :
           (UGLookupStep("uid") /\ res'.n = n) =>
              LET e == userNameToUidCache[n] IN
              IF e.expires > ugNow
              THEN ~res'.flag /\ res'.size = e.id
                   /\ userNameToUidCache' = userNameToUidCache
              ELSE /\ res'.flag
                   /\ IF hostUsers[n].known
                      THEN /\ userNameToUidCache'[n].expires = ugNow + UGCacheTime
                           /\ userNameToUidCache'[n].id = res'.size
                      ELSE /\ res'.size = 0
                           /\ userNameToUidCache' = userNameToUidCache
      /\ \A uid \in Uids :
           (UGLookupStep("uname") /\ res'.size = uid) =>
              LET e == userIdToNameCache[uid] IN
              IF e.expires > ugNow
              THEN ~res'.flag /\ res'.n = e.name
                   /\ userIdToNameCache' = userIdToNameCache
              ELSE /\ res'.flag
                   /\ IF NamesOfUid(uid) # {}
                      THEN /\ userIdToNameCache'[uid].expires = ugNow + UGCacheTime
                           /\ userIdToNameCache'[uid].name = res'.n
                      ELSE /\ res'.n = ""
                           /\ userIdToNameCache' = userIdToNameCache ]_vars

\* a uid has been answered from the cache after the user has left the host
\* database
C39_Witness ==
  /\ res.op = "uid" /\ res.st = "hit" /\ ~res.flag
  /\ ~hostUsers[res.n].known

\* the pool slots that hold the reader
SlotsOf(r) == IF PoolIsNil THEN {} ELSE {o \in Offsets : Pool[o] = r}

\* C40: every open reader is held by exactly one ReadAt or stored in exactly
\* one slot of the pool, never both; the pool holds at most MaxReaders
\* readers; and when ReadAt has returned the error of a seek or of a read
\* its reader is closed and not in the pool. Checked under SpecRar.
C40_ReadersAccounted ==
  /\ \A r \in readerOpen : Cardinality(HeldBy(r)) + Cardinality(SlotsOf(r)) = 1
  /\ Cardinality(Pooled) <= MaxReaders
  /\ (res.op = "rar" /\ res.st \in {"seekerr", "readerr"}) =>
        (res.h \notin readerOpen /\ res.h \notin Pooled)

\* the accounting of the open readers and the size of the pool alone; a
\* closed reader is neither held nor in the pool
RarAccounting ==
  /\ \A r \in readerOpen : Cardinality(HeldBy(r)) + Cardinality(SlotsOf(r)) = 1
  /\ \A r \in Readers \ readerOpen : HeldBy(r) = {} /\ SlotsOf(r) = {}
  /\ Cardinality(Pooled) <= MaxReaders

====
